---------------------------- MODULE Spec2Model ----------------------------
(***************************************************************************)
(* MCP client connection manager (LibreChat fork):                         *)
(*   - MCPManager      (packages/api/src/mcp/manager.ts, src/unnamed/part_004) *)
(*   - MCPConnection   (packages/api/src/mcp/connection.ts)                *)
(*                                                                         *)
(* The module holds three state machines over one set of variables:        *)
(*   SpecPool   the pool manager: thread-scope acquisition and idle        *)
(*              reclamation over abstract Connections (tool calls and      *)
(*              shutdown are the action groups PoolTools, PoolShutdown);   *)
(*   SpecOAuth  the authorization coordinator (handleOAuthRequired);       *)
(*   SpecConn   one MCPConnection in detail: connect / disconnect /        *)
(*              reconnect loop / session recovery.                         *)
(* Beside them: the session tracker of SessionAwareMCPManager              *)
(* (SpecTracker), the initTimeout race of getThreadConnection (SpecInit),  *)
(* and parts of the two classes on their own: the session extraction       *)
(* (SpecSessionId), the classification of connect errors (SpecError), the  *)
(* detection of session errors (SpecDetect), the send interceptor          *)
(* (SpecPing) and the retry loop of initializeServer (SpecInitServer).     *)
(*                                                                         *)
(* Interleaving model: JavaScript runs each synchronous stretch of code    *)
(* atomically; an action of this module is one such stretch, from the      *)
(* resumption of an awaited I/O operation (handshake, ping, request,       *)
(* client.close(), fetch, timer) to the next awaited I/O operation.        *)
(* Continuations that follow a settled promise without further I/O         *)
(* (Promise.allSettled over finished children, `finally` blocks) are part  *)
(* of the action that settles the promise.                                 *)
(***************************************************************************)
EXTENDS Integers, Sequences, FiniteSets, TLC

(***************************************************************************)
(* Bounds of the model                                                     *)
(***************************************************************************)
MaxConns == 2        \* thread-scope Connection objects ever constructed
MaxCalls == 2        \* concurrent getThreadConnection / callTool invocations
MaxNow   == 63       \* the clock stops advancing here (minutes)
MaxRoots == 1        \* concurrently pending top-level teardown operations

(***************************************************************************)
(* Program constants (manager.ts:30-31), in minutes                        *)
(***************************************************************************)
THREAD_CONNECTION_IDLE_TIMEOUT == 60
USER_CONNECTION_IDLE_TIMEOUT == 15

Users   == {"u1", "u2"}
Threads == {"t1", "t2"}
Servers == {"s1", "s2"}

\* A thread id is a conversation id: it belongs to one user
\* (src/unnamed/part_000, "Thread ID Availability").
Owner(t) == IF t = "t1" THEN "u1" ELSE "u2"

\* Server "s1" is configured as streamable-http and issues a session id;
\* server "s2" is a stdio server (no Session Record).
HasSessionSupport(s) == s = "s1"

NoConn == 0
Absent == -1
ThreadConnIds == 1..MaxConns
\* initializeMCP established an app-level Connection for these servers only
\* (the others failed to initialize at startup, manager.ts:179-181, 238-250).
AppServers == {"s2"}
AppConnId(s) == MaxConns + 1
AppConnIds == {AppConnId(s) : s \in AppServers}
ConnIds == ThreadConnIds \cup AppConnIds
CallIds == 1..MaxCalls
\* One tick makes a user idle, two ticks make a thread idle.
TickStep == 2 * USER_CONNECTION_IDLE_TIMEOUT + 1

VARIABLES
  \* ---- MCPManager fields (manager.ts:21-29) ----
  connections,          \* server -> app-level Connection id or NoConn
  threadConnections,    \* thread -> server -> Connection id or NoConn
  threadLastActivity,   \* thread -> timestamp or Absent
  userThreadMapping,    \* user -> set of threads ({} = no key)
  userLastActivity,     \* user -> timestamp or Absent
  \* ---- environment and Connection objects as the pool sees them ----
  now,                  \* Date.now(), minutes
  conn,                 \* Connection id -> record (see FreshConn)
  \* ---- in-flight asynchronous operations of the pool ----
  calls,                \* call id -> getThreadConnection / callTool frame
  dtcTasks,             \* pending disconnectThreadConnection() frames
  dtsTasks,             \* pending disconnectThreadConnections() frames
  dutTasks,             \* pending disconnectUserThreads() frames
  allTask,              \* disconnectAll() frame; fresh: a disconnectAll() has
                        \* completed and no operation of the manager has run since
  \* ---- history (observation only) ----
  reaped,               \* Connections captured by an idle-thread reaper pass
  \* ---- authorization coordinator (handleOAuthRequired) ----
  flows,                \* flow id -> record of the external flow store
  trig,                 \* trigger id -> frame of one oauthRequired handler run
  initiated,            \* flow id -> initiateOAuthFlow calls of the current burst
  urls,                 \* flow id -> oauthStart(url) calls of the current burst
  \* ---- one MCPConnection in detail (connection.ts) ----
  mc,                   \* the Connection's fields (connection.ts:58-79)
  att,                  \* transport / connectClient attempt id -> record
  task,                 \* connect() callers, reconnect loops, session recovery
  hist,                 \* history (observation only)
  \* ---- SessionAwareMCPManager (session/SessionAwareMCPManager.ts:16) ----
  sessionTracker,       \* user -> [has: the user has a map, m: server -> entry]
  \* ---- initializeServer calls that lost the initTimeout race ----
  abandonedInit,        \* Connection id -> frame of the retry loop still running
  \* ---- extractSessionFromConnection on its own (connection.ts:628-654) ----
  transportSessionId,   \* the sessionId property of the transport
  extracted,            \* the Session Record and the event after the extraction
  \* ---- isOAuthError on its own (connection.ts:945-962) ----
  connectError,         \* the value a connect attempt failed with
  classified,           \* the result of the classification
  \* ---- detectSessionError on its own (connection.ts:750-792) ----
  thrownError,          \* the value handed to transport.onerror, and this.sessionInfo
  detected,             \* the result of the detection
  \* ---- initializeServer on its own (manager.ts:268-326) ----
  initServer,           \* the frame of one initializeServer call
  \* ---- the send interceptor of the transport (connection.ts:614-623) ----
  dateNow,              \* Date.now(), in minutes
  lastPingTime,         \* MCPConnection.lastPingTime
  sendLog               \* what became of the last message, and history

poolVars == <<connections, threadConnections, threadLastActivity, userThreadMapping,
              userLastActivity, now, conn, calls, dtcTasks, dtsTasks, dutTasks,
              allTask, reaped>>

oauthVars == <<flows, trig, initiated, urls>>

\* Everything the pool's operations leave alone.
connVars == <<mc, att, task, hist>>

trackerVars == <<sessionTracker>>

\* The state of the components modelled on their own.
abandonVars == <<abandonedInit>>
sessionIdVars == <<transportSessionId, extracted>>
errorVars == <<connectError, classified>>
detectVars == <<thrownError, detected>>
initVars == <<initServer>>
pingVars == <<dateNow, lastPingTime, sendLog>>
otherVars == <<trackerVars, abandonVars, sessionIdVars, errorVars, detectVars,
               initVars, pingVars>>

\* Everything the pool's operations leave alone.
nonPoolVars == <<oauthVars, connVars, otherVars>>

vars == <<poolVars, oauthVars, connVars, otherVars>>


(***************************************************************************)
(* Connection objects as the pool sees them (connection.ts)                *)
(***************************************************************************)
\* A Connection right after `new MCPConnection(...)` (connection.ts:56-107).
\* closing counts the client.close() calls in flight; teardownStarted records
\* that a pool teardown (reaper, user reclamation, shutdown) has invoked
\* disconnect() on it.
FreshConn(t, s) ==
  [alloc |-> TRUE, connectionState |-> "disconnected", transport |-> FALSE,
   closing |-> 0, sess |-> "none", thread |-> t, server |-> s,
   teardownStarted |-> FALSE]

NoConnRec ==
  [alloc |-> FALSE, connectionState |-> "disconnected", transport |-> FALSE,
   closing |-> 0, sess |-> "none", thread |-> "none", server |-> "none",
   teardownStarted |-> FALSE]

\* An app-level Connection after a successful initializeMCP (manager.ts:123-181).
AppConnRec(s) ==
  [alloc |-> TRUE, connectionState |-> "connected", transport |-> TRUE,
   closing |-> 0, sess |-> IF HasSessionSupport(s) THEN "active" ELSE "none",
   thread |-> "none", server |-> s, teardownStarted |-> FALSE]

\* isConnected() (connection.ts:931-939): the ping must succeed and the state
\* must be connected.  A ping cannot succeed on a client that has no transport
\* or whose close() has been called.
IsConnected(cr, pingOk) ==
  pingOk /\ cr.transport /\ cr.closing = 0 /\ cr.connectionState = "connected"

\* disconnect(), synchronous part up to its first await (connection.ts:794-807).
\* Returns the phase the caller is left in: "term" (awaiting terminateSession),
\* "close" (awaiting client.close()) or "done" (no transport: finished at once).
DisconnectPhase(cr) ==
  IF cr.transport
    THEN IF HasSessionSupport(cr.server) /\ cr.sess = "active" THEN "term" ELSE "close"
    ELSE "done"

DisconnectBegin(cr) ==
  IF cr.transport
    THEN IF HasSessionSupport(cr.server) /\ cr.sess = "active"
           THEN cr
           ELSE [cr EXCEPT !.closing = @ + 1]
    ELSE [cr EXCEPT !.sess = "none", !.connectionState = "disconnected"]

\* terminateSession() settled (connection.ts:660-696, 800-807): a 2xx marks the
\* session terminated; then client.close() is called.
DisconnectTermDone(cr, ok2xx) ==
  [cr EXCEPT !.sess = IF ok2xx /\ @ = "active" THEN "terminated" ELSE @,
             !.closing = @ + 1]

\* client.close() settled (connection.ts:807-825): on success the transport is
\* nulled, the session cleared and the state set to disconnected; if close()
\* throws, disconnect() rethrows and leaves the rest as it was.
DisconnectCloseDone(cr, ok) ==
  IF ok
    THEN [cr EXCEPT !.closing = @ - 1, !.transport = FALSE, !.sess = "none",
                    !.connectionState = "disconnected"]
    ELSE [cr EXCEPT !.closing = @ - 1]

(***************************************************************************)
(* Pool state as a record, so that the synchronous steps of one handler    *)
(* can be composed                                                         *)
(***************************************************************************)
Cur ==
  [connections |-> connections, tc |-> threadConnections, tla |-> threadLastActivity,
   utm |-> userThreadMapping, ula |-> userLastActivity, cn |-> conn, calls |-> calls,
   dtc |-> dtcTasks, dts |-> dtsTasks, dut |-> dutTasks,
   all |-> [allTask EXCEPT !.fresh = FALSE],
   reaped |-> reaped]

Commit(P) ==
  /\ connections' = P.connections
  /\ threadConnections' = P.tc
  /\ threadLastActivity' = P.tla
  /\ userThreadMapping' = P.utm
  /\ userLastActivity' = P.ula
  /\ conn' = P.cn
  /\ calls' = P.calls
  /\ dtcTasks' = P.dtc
  /\ dtsTasks' = P.dts
  /\ dutTasks' = P.dut
  /\ allTask' = P.all
  /\ reaped' = P.reaped

HasThread(tc, t) == \E s \in Servers : tc[t][s] # NoConn
ThreadServers(tc, t) == {s \in Servers : tc[t][s] # NoConn}
PooledConns(tc) == {tc[t][s] : t \in Threads, s \in Servers} \ {NoConn}

\* updateThreadLastActivity / updateUserLastActivity (manager.ts:382-397)
UpdateThreadLastActivity_Skip(P, t) == P
UpdateThreadLastActivity(P, t) == [P EXCEPT !.tla[t] = now]
UpdateUserLastActivity(P, u) == [P EXCEPT !.ula[u] = now]

\* addUserThreadMapping (manager.ts:400-405)
AddUserThreadMapping(P, u, t) == [P EXCEPT !.utm[u] = @ \cup {t}]

\* removeUserThreadMapping (manager.ts:408-416)
RemoveUserThreadMapping(P, u, t) == [P EXCEPT !.utm[u] = @ \ {t}]

\* removeThreadConnection (manager.ts:693-714): deletes the entry under the
\* key (t, s), whatever Connection it holds; when the thread's map becomes
\* empty it also drops the thread, its activity timestamp and its place in
\* the first user set that contains it.
RemoveThreadConnection(P, t, s) ==
  IF ~HasThread(P.tc, t) THEN P
  ELSE LET P1 == [P EXCEPT !.tc[t][s] = NoConn]
       IN IF HasThread(P1.tc, t) THEN P1
          ELSE LET P2 == [P1 EXCEPT !.tla[t] = Absent]
                   us == {u \in Users : t \in P2.utm[u]}
               IN IF us = {} THEN P2
                  ELSE RemoveUserThreadMapping(P2, CHOOSE u \in us : TRUE, t)


(***************************************************************************)
(* Teardown: disconnectThreadConnection(s), disconnectUserThreads,         *)
(* disconnectAll.  A frame of dtcTasks is one disconnectThreadConnection   *)
(* call waiting for connection.disconnect(); root names the top-level      *)
(* operation that started it, u the disconnectUserThreads frame above it   *)
(* ("none" when there is none).                                            *)
(***************************************************************************)
NoUser == "none"
NoThread == "none"
ReaperRoot(g) == [kind |-> "reaper", id |-> g]
CallRoot(k) == [kind |-> "call", id |-> k]
AllRoot == [kind |-> "all", id |-> 0]

\* Smallest free Connection id (the model's `new MCPConnection`).
HasFreeConn(cn) == \E c \in ThreadConnIds : ~cn[c].alloc
NewConnId(cn) == CHOOSE c \in ThreadConnIds :
                   ~cn[c].alloc /\ \A d \in ThreadConnIds : d < c => cn[d].alloc

\* disconnectThreadConnection, up to `await connection.disconnect()`
\* (manager.ts:723-728).
StartDisconnectThreadConnection(P, root, u, t, s) ==
  LET c == P.tc[t][s]
  IN IF c = NoConn THEN P
     ELSE [P EXCEPT
             !.cn[c] = [DisconnectBegin(P.cn[c]) EXCEPT !.teardownStarted = TRUE],
             !.dtc = @ \cup {[root |-> root, u |-> u, t |-> t, s |-> s, c |-> c,
                              phase |-> DisconnectPhase(P.cn[c])]}]

RECURSIVE StartDTCs(_, _, _, _, _)
StartDTCs(P, root, u, t, ss) ==
  IF ss = {} THEN P
  ELSE LET s == CHOOSE x \in ss : TRUE
       IN StartDTCs(StartDisconnectThreadConnection(P, root, u, t, s),
                    root, u, t, ss \ {s})

\* disconnectThreadConnections, up to `await Promise.allSettled`
\* (manager.ts:734-750).  Without a map for the thread it returns at once.
StartDisconnectThreadConnections(P, root, u, t) ==
  IF ~HasThread(P.tc, t) THEN P
  ELSE LET P1 == StartDTCs(P, root, u, t, ThreadServers(P.tc, t))
       IN [P1 EXCEPT !.dts = @ \cup {[root |-> root, u |-> u, t |-> t]}]

RECURSIVE StartDTSs(_, _, _, _)
StartDTSs(P, root, u, ts) ==
  IF ts = {} THEN P
  ELSE LET t == CHOOSE x \in ts : TRUE
       IN StartDTSs(StartDisconnectThreadConnections(P, root, u, t), root, u, ts \ {t})

\* disconnectUserThreads, up to `await Promise.allSettled` (manager.ts:764-780).
StartDisconnectUserThreads(P, root, u) ==
  IF P.utm[u] = {} THEN P
  ELSE LET P1 == StartDTSs(P, root, u, P.utm[u])
       IN [P1 EXCEPT !.dut = @ \cup {[root |-> root, u |-> u]}]

RECURSIVE StartDUTs(_, _, _)
StartDUTs(P, root, us) ==
  IF us = {} THEN P
  ELSE LET u == CHOOSE x \in us : TRUE
       IN StartDUTs(StartDisconnectUserThreads(P, root, u), root, us \ {u})

\* connection.connect() called on a Connection that has no transport yet
\* (connection.ts:698-701, 478-498): disconnect() is a no-op, connectClient
\* emits 'connecting', constructs the transport and starts the handshake.
ConnectBegin(cr) == [cr EXCEPT !.connectionState = "connecting", !.transport = TRUE]

\* getThreadConnection from `new MCPConnection` to the await of the
\* initializeServer race (manager.ts:482-610); c is the new Connection's id.
CreateAndInit(P, k, c) ==
  [P EXCEPT !.cn[c] = ConnectBegin(FreshConn(P.calls[k].thread, P.calls[k].server)),
            !.calls[k].c = c, !.calls[k].pc = "awaitInit"]

\* disconnectAll after the user teardowns have settled (manager.ts:1102-1111):
\* the indexes are cleared and disconnect() is started on every app connection.
AppConnsOf(P) == {P.connections[s] : s \in Servers} \ {NoConn}

DisconnectAllApps(P) ==
  LET apps == AppConnsOf(P)
  IN [P EXCEPT
        !.ula = [u \in Users |-> Absent],
        !.tla = [t \in Threads |-> Absent],
        !.utm = [u \in Users |-> {}],
        !.cn = [c \in ConnIds |->
                  IF c \in apps
                    THEN [DisconnectBegin(P.cn[c]) EXCEPT !.teardownStarted = TRUE]
                    ELSE P.cn[c]],
        !.all = [pc |-> "apps", fresh |-> FALSE,
                 pending |-> {[c |-> c, phase |-> DisconnectPhase(P.cn[c])] : c \in apps}]]

\* Runs every continuation that is ready: a settled disconnect() continues
\* its disconnectThreadConnection (manager.ts:729), a disconnectThreadConnections
\* whose children have all settled deletes the thread's timestamp (752), a
\* disconnectUserThreads whose children have all settled deletes the user's
\* timestamp and thread set (782-783), disconnectAll moves on (1102-1113), and a
\* getThreadConnection waiting for an idle thread's teardown goes on to create
\* its Connection (465, 482).
RECURSIVE Drain(_)
Drain(P) ==
  IF \E x \in P.dtc : x.phase \in {"done", "failed"}
    THEN LET x == CHOOSE y \in P.dtc : y.phase \in {"done", "failed"}
             P1 == [P EXCEPT !.dtc = @ \ {x}]
         IN Drain(IF x.phase = "done" THEN RemoveThreadConnection(P1, x.t, x.s) ELSE P1)
  ELSE IF \E d \in P.dts :
            ~\E x \in P.dtc : x.root = d.root /\ x.u = d.u /\ x.t = d.t
    THEN LET d == CHOOSE e \in P.dts :
                    ~\E x \in P.dtc : x.root = e.root /\ x.u = e.u /\ x.t = e.t
             P1 == [P EXCEPT !.dts = @ \ {d}, !.tla[d.t] = Absent]
         IN Drain(IF d.root.kind = "call"
                    THEN CreateAndInit(P1, d.root.id, P1.calls[d.root.id].c)
                    ELSE P1)
  ELSE IF \E d \in P.dut : ~\E e \in P.dts : e.root = d.root /\ e.u = d.u
    THEN LET d == CHOOSE f \in P.dut : ~\E e \in P.dts : e.root = f.root /\ e.u = f.u
         IN Drain([P EXCEPT !.dut = @ \ {d}, !.ula[d.u] = Absent, !.utm[d.u] = {}])
  ELSE IF P.all.pc = "users" /\ ~\E d \in P.dut : d.root = AllRoot
    THEN Drain(DisconnectAllApps(P))
  ELSE IF P.all.pc = "apps" /\ \A x \in P.all.pending : x.phase \in {"done", "failed"}
    THEN [P EXCEPT !.connections = [s \in Servers |-> NoConn],
                   !.all = [pc |-> "idle", pending |-> {}, fresh |-> TRUE]]
  ELSE P


(***************************************************************************)
(* checkIdleConnections (manager.ts:348-379).  Both callers, getInstance    *)
(* (41) and callTool (1074), pass no currentUserId.                        *)
(***************************************************************************)
IdleThreads(P) ==
  {t \in Threads : P.tla[t] # Absent /\ now - P.tla[t] > THREAD_CONNECTION_IDLE_TIMEOUT}

\* Every user with a timestamp, idle or not.
IdleUsers_All(P) == {u \in Users : P.ula[u] # Absent}

IdleUsers(P) ==
  {u \in Users : P.ula[u] # Absent /\ now - P.ula[u] > USER_CONNECTION_IDLE_TIMEOUT}

CheckIdleConnections(P, root) ==
  LET P1 == StartDTSs(P, root, NoUser, IdleThreads(P))
      P2 == StartDUTs(P1, root, IdleUsers(P))
  IN [P2 EXCEPT !.reaped =
                  @ \cup ({P.tc[t][s] : t \in IdleThreads(P), s \in Servers} \ {NoConn})]

RootsInUse(P) == {x.root : x \in P.dtc} \cup {d.root : d \in P.dts} \cup {d.root : d \in P.dut}
FreeReaperRoots(P) == {g \in 1..MaxRoots : ReaperRoot(g) \notin RootsInUse(P)}
NewReaperRoot(P) == ReaperRoot(CHOOSE g \in FreeReaperRoots(P) :
                                 \A h \in FreeReaperRoots(P) : g <= h)

(***************************************************************************)
(* Call frames: getThreadConnection (manager.ts:419-642) and the callTool  *)
(* around it (1007-1082)                                                   *)
(***************************************************************************)
\* preThread, preUser: the activity timestamps of the thread and of its user
\* when a callTool was entered (Absent in a bare getThreadConnection call).
IdleCall ==
  [pc |-> "idle", tool |-> FALSE, thread |-> "none", server |-> "none", c |-> NoConn,
   phase |-> "none", tornAtReturn |-> FALSE, peers |-> {},
   preThread |-> Absent, preUser |-> Absent, user |-> NoUser, timedOut |-> FALSE]

AcquiringPcs == {"awaitIdleDisc", "awaitPing", "awaitInit", "awaitCheck"}

\* getThreadConnection returns Connection c to its caller; inside callTool the
\* caller goes straight on to `await connection.isConnected()` (1046).
ReturnConn(P, k, c) ==
  [P EXCEPT !.calls[k].c = c,
            !.calls[k].tornAtReturn = P.cn[c].teardownStarted,
            !.calls[k].pc = IF P.calls[k].tool THEN "toolPing" ELSE "returned"]

\* The catch block of getThreadConnection up to `await connection.disconnect()`
\* (manager.ts:629-632).
BeginCleanup(P, k) ==
  LET c == P.calls[k].c
  IN [P EXCEPT !.cn[c] = DisconnectBegin(P.cn[c]),
               !.calls[k].pc = "cleanup",
               !.calls[k].phase = DisconnectPhase(P.cn[c])]

\* The rest of the catch block (manager.ts:638-640).
FinishCleanup(P, k) ==
  LET P1 == RemoveThreadConnection(P, P.calls[k].thread, P.calls[k].server)
  IN [P1 EXCEPT !.calls[k].pc = "failed", !.calls[k].phase = "none"]

InitPool ==
  /\ connections = [s \in Servers |-> IF s \in AppServers THEN AppConnId(s) ELSE NoConn]
  /\ threadConnections = [t \in Threads |-> [s \in Servers |-> NoConn]]
  /\ threadLastActivity = [t \in Threads |-> Absent]
  /\ userThreadMapping = [u \in Users |-> {}]
  /\ userLastActivity = [u \in Users |-> Absent]
  /\ now = 1
  /\ conn = [c \in ConnIds |->
               IF c \in AppConnIds
                 THEN AppConnRec(CHOOSE s \in AppServers : AppConnId(s) = c)
                 ELSE NoConnRec]
  /\ calls = [k \in CallIds |-> IdleCall]
  /\ dtcTasks = {}
  /\ dtsTasks = {}
  /\ dutTasks = {}
  /\ allTask = [pc |-> "idle", pending |-> {}, fresh |-> FALSE]
  /\ reaped = {}

\* The clock advances.
Tick ==
  /\ now + TickStep <= MaxNow
  /\ now' = now + TickStep
  /\ UNCHANGED <<connections, threadConnections, threadLastActivity, userThreadMapping,
                 userLastActivity, conn, calls, dtcTasks, dtsTasks, dutTasks, allTask,
                 reaped, nonPoolVars>>

\* getInstance() (manager.ts:36-43): a reclamation pass.
GetInstance ==
  /\ FreeReaperRoots(Cur) # {}
  /\ Commit(Drain(CheckIdleConnections(Cur, NewReaperRoot(Cur))))
  /\ UNCHANGED <<now, nonPoolVars>>

\* Entry of getThreadConnection(Owner(t), t, s), directly or from callTool
\* (manager.ts:1008-1011, 440-485).
GTC_Enter(k, t, s, tool) ==
  /\ calls[k].pc = "idle"
  /\ \A j \in CallIds : j < k => calls[j].pc # "idle"    \* lowest free frame
  /\ LET P0 == IF tool THEN UpdateUserLastActivity(Cur, Owner(t)) ELSE Cur
         fr == [IdleCall EXCEPT !.tool = tool, !.thread = t, !.server = s,
                  !.user = Owner(t),
                  !.preThread = IF tool THEN threadLastActivity[t] ELSE Absent,
                  !.preUser = IF tool THEN userLastActivity[Owner(t)] ELSE Absent,
                  !.peers = {j \in CallIds \ {k} :
                               /\ calls[j].pc \in AcquiringPcs
                               /\ calls[j].thread = t /\ calls[j].server = s}]
         P1 == [P0 EXCEPT !.calls[k] = fr]
         existing == threadConnections[t][s]
         lastActivity == threadLastActivity[t]
     IN IF lastActivity # Absent /\ lastActivity # 0
           /\ now - lastActivity > THREAD_CONNECTION_IDLE_TIMEOUT
          THEN /\ HasFreeConn(conn)
               /\ LET c == NewConnId(conn)
                      P2 == [P1 EXCEPT !.cn[c] = FreshConn(t, s),
                                       !.calls[k].c = c,
                                       !.calls[k].pc = "awaitIdleDisc"]
                      P3 == StartDisconnectThreadConnections(P2, CallRoot(k), NoUser, t)
                      P4 == IF \E d \in P3.dts : d.root = CallRoot(k)
                              THEN P3 ELSE CreateAndInit(P3, k, c)
                  IN Commit(Drain(P4))
          ELSE IF existing # NoConn
            THEN Commit([P1 EXCEPT !.calls[k].c = existing, !.calls[k].pc = "awaitPing"])
            ELSE /\ HasFreeConn(conn)
                 /\ Commit(CreateAndInit(P1, k, NewConnId(conn)))
  /\ UNCHANGED <<now, nonPoolVars>>

\* `await connection.isConnected()` on the pooled Connection settles
\* (manager.ts:467-480).
GTC_PingDone(k, pingOk) ==
  /\ calls[k].pc = "awaitPing"
  /\ LET c == calls[k].c
         t == calls[k].thread
         s == calls[k].server
     IN IF IsConnected(conn[c], pingOk)
          THEN Commit(ReturnConn(UpdateUserLastActivity(
                                   UpdateThreadLastActivity(Cur, t), Owner(t)), k, c))
          ELSE /\ HasFreeConn(conn)
               /\ Commit(CreateAndInit(RemoveThreadConnection(Cur, t, s), k,
                                       NewConnId(conn)))
  /\ UNCHANGED <<now, nonPoolVars>>

\* initializeServer resolves: the handshake succeeded (manager.ts:284-288,
\* connection.ts:507-514); the caller goes on to `await isConnected()` (612).
GTC_InitOk(k) ==
  /\ calls[k].pc = "awaitInit"
  /\ LET c == calls[k].c
     IN Commit([Cur EXCEPT
                  !.cn[c].connectionState = "connected",
                  !.cn[c].sess = IF HasSessionSupport(conn[c].server)
                                   THEN "active" ELSE "none",
                  !.calls[k].pc = "awaitCheck"])
  /\ UNCHANGED <<now, nonPoolVars>>

\* initializeServer rejects after its attempts failed (manager.ts:319-322,
\* connection.ts:593-595): the state is error; the catch block starts cleanup.
GTC_InitFail(k) ==
  /\ calls[k].pc = "awaitInit"
  /\ LET c == calls[k].c
     IN Commit(BeginCleanup([Cur EXCEPT !.cn[c].connectionState = "error"], k))
  /\ UNCHANGED <<now, nonPoolVars>>

\* `await connection.isConnected()` after initialization settles
\* (manager.ts:612-628): register and return, or throw into the catch block.
GTC_CheckDone(k, pingOk) ==
  /\ calls[k].pc = "awaitCheck"
  /\ LET c == calls[k].c
         t == calls[k].thread
         s == calls[k].server
     IN IF IsConnected(conn[c], pingOk)
          THEN LET P1 == [Cur EXCEPT !.tc[t][s] = c]
                   P2 == AddUserThreadMapping(P1, Owner(t), t)
                   P3 == UpdateUserLastActivity(UpdateThreadLastActivity(P2, t), Owner(t))
               IN Commit(ReturnConn(P3, k, c))
          ELSE Commit(BeginCleanup(Cur, k))
  /\ UNCHANGED <<now, nonPoolVars>>

\* terminateSession() of the cleanup disconnect settles (connection.ts:798-807).
GTC_CleanupTermDone(k, ok2xx) ==
  /\ calls[k].pc = "cleanup" /\ calls[k].phase = "term"
  /\ LET c == calls[k].c
     IN Commit([Cur EXCEPT !.cn[c] = DisconnectTermDone(conn[c], ok2xx),
                           !.calls[k].phase = "close"])
  /\ UNCHANGED <<now, nonPoolVars>>

\* client.close() of the cleanup disconnect settles; an exception is caught
\* and logged (manager.ts:632-640).
GTC_CleanupCloseDone(k, ok) ==
  /\ calls[k].pc = "cleanup" /\ calls[k].phase = "close"
  /\ LET c == calls[k].c
     IN Commit(FinishCleanup([Cur EXCEPT !.cn[c] = DisconnectCloseDone(conn[c], ok)], k))
  /\ UNCHANGED <<now, nonPoolVars>>

(***************************************************************************)
(* The initTimeout race of getThreadConnection (manager.ts:598-610) and    *)
(* the initializeServer retry loop it abandons (manager.ts:268-326).  A    *)
(* frame of abandonedInit is the loop of one Connection: awaiting its      *)
(* connect() ("connecting") or its backoff timer ("sleep"), with the       *)
(* number of attempts that have failed.                                    *)
(***************************************************************************)
maxAttempts == 3
NoLoop == [pc |-> "none", attempts |-> 0]
LoopPcs == {"connecting", "sleep"}

InitAbandon == abandonedInit = [c \in ThreadConnIds |-> NoLoop]

\* The timer of the race fires first (manager.ts:599-610): the call throws into
\* its catch block; initializeServer keeps running where it was.
GTC_InitTimeout(k, at, attempts) ==
  /\ calls[k].pc = "awaitInit"
  /\ at \in LoopPcs /\ attempts \in 0..(maxAttempts - 1)
  /\ at = "sleep" => attempts > 0
  /\ LET c == calls[k].c
         P0 == IF at = "sleep" THEN [Cur EXCEPT !.cn[c].connectionState = "error"] ELSE Cur
     IN /\ Commit(BeginCleanup([P0 EXCEPT !.calls[k].timedOut = TRUE], k))
        /\ abandonedInit' = [abandonedInit EXCEPT ![c] = [pc |-> at, attempts |-> attempts]]
  /\ UNCHANGED <<now, oauthVars, connVars, trackerVars,
                 sessionIdVars, errorVars, detectVars,
                 initVars, pingVars>>

\* The backoff timer of an abandoned loop fires and the loop calls
\* connection.connect() again (manager.ts:323, 284-286); shown for a Connection
\* whose teardown has finished, where connect() starts a new transport.
AbandonedInit_Retry(c) ==
  /\ abandonedInit[c].pc = "sleep"
  /\ ~conn[c].transport /\ conn[c].closing = 0
  /\ conn' = [conn EXCEPT ![c] = ConnectBegin(conn[c])]
  /\ abandonedInit' = [abandonedInit EXCEPT ![c].pc = "connecting"]
  /\ UNCHANGED <<connections, threadConnections, threadLastActivity, userThreadMapping,
                 userLastActivity, now, calls, dtcTasks, dtsTasks, dutTasks, allTask,
                 reaped, oauthVars, connVars, trackerVars,
                 sessionIdVars, errorVars, detectVars,
                 initVars, pingVars>>

\* connect() of an abandoned loop settles (manager.ts:286-325).  It can succeed
\* only on a transport that has not been closed; the loop ends on success and
\* after maxAttempts failures.
AbandonedInit_ConnectDone(c, ok) ==
  /\ abandonedInit[c].pc = "connecting"
  /\ ok => /\ conn[c].transport /\ conn[c].closing = 0
           /\ conn[c].connectionState = "connecting"
  /\ IF ok
       THEN /\ conn' = [conn EXCEPT ![c].connectionState = "connected",
                                    ![c].sess = IF HasSessionSupport(conn[c].server)
                                                  THEN "active" ELSE "none"]
            /\ abandonedInit' = [abandonedInit EXCEPT ![c] = NoLoop]
       ELSE /\ conn' = [conn EXCEPT ![c].connectionState =
                                      IF conn[c].transport /\ conn[c].closing = 0
                                        THEN "error" ELSE @]
            /\ abandonedInit' =
                 [abandonedInit EXCEPT ![c] =
                    IF abandonedInit[c].attempts + 1 = maxAttempts
                      THEN NoLoop
                      ELSE [pc |-> "sleep", attempts |-> abandonedInit[c].attempts + 1]]
  /\ UNCHANGED <<connections, threadConnections, threadLastActivity, userThreadMapping,
                 userLastActivity, now, calls, dtcTasks, dtsTasks, dutTasks, allTask,
                 reaped, oauthVars, connVars, trackerVars,
                 sessionIdVars, errorVars, detectVars,
                 initVars, pingVars>>

CallTool_AppEnter_PreferThread(k, u, t, s) ==
  /\ calls[k].pc = "idle"
  /\ \A j \in CallIds : j < k => calls[j].pc # "idle"
  /\ u = NoUser \/ t = NoThread
  /\ LET connection == IF t # NoThread /\ threadConnections[t][s] # NoConn
                         THEN threadConnections[t][s] ELSE connections[s]
         fr == [IdleCall EXCEPT !.tool = TRUE, !.thread = t, !.server = s, !.user = u,
                                !.c = connection,
                                !.pc = IF connection = NoConn THEN "failed" ELSE "toolPing"]
     IN Commit([Cur EXCEPT !.calls[k] = fr])
  /\ UNCHANGED <<now, nonPoolVars>>

\* Entry of callTool without a user or without a threadId
\* (manager.ts:1008, 1022-1044, 678-689): the app-level Connection of the
\* server is used, and the call fails if there is none.
CallTool_AppEnter(k, u, t, s) ==
  /\ calls[k].pc = "idle"
  /\ \A j \in CallIds : j < k => calls[j].pc # "idle"    \* lowest free frame
  /\ u = NoUser \/ t = NoThread
  /\ LET connection == connections[s]
         fr == [IdleCall EXCEPT !.tool = TRUE, !.thread = t, !.server = s, !.user = u,
                                !.c = connection,
                                !.pc = IF connection = NoConn THEN "failed" ELSE "toolPing"]
     IN Commit([Cur EXCEPT !.calls[k] = fr])
  /\ UNCHANGED <<now, nonPoolVars>>

\* callTool: `await connection.isConnected()` settles (manager.ts:1046-1054).
Tool_PingDone(k, pingOk) ==
  /\ calls[k].pc = "toolPing"
  /\ Commit([Cur EXCEPT !.calls[k].pc =
               IF IsConnected(conn[calls[k].c], pingOk) THEN "toolRequest" ELSE "failed"])
  /\ UNCHANGED <<now, nonPoolVars>>

\* callTool: the tools/call request settles (manager.ts:1054-1081).  On success
\* both timestamps are updated and a reclamation pass runs.
Tool_RequestDone(k, ok) ==
  /\ calls[k].pc = "toolRequest"
  /\ IF ok
       THEN /\ FreeReaperRoots(Cur) # {}
            /\ LET t == calls[k].thread
                   u == calls[k].user
                   P0 == IF u # NoUser THEN UpdateUserLastActivity(Cur, u) ELSE Cur
                   P1 == IF t # NoThread THEN UpdateThreadLastActivity(P0, t) ELSE P0
                   P2 == CheckIdleConnections(P1, NewReaperRoot(Cur))
               IN Commit(Drain([P2 EXCEPT !.calls[k].pc = "toolDone"]))
       ELSE Commit([Cur EXCEPT !.calls[k].pc = "failed"])
  /\ UNCHANGED <<now, nonPoolVars>>

\* The caller drops the settled call; the frame can be used again.
Release(k) ==
  /\ calls[k].pc \in {"returned", "failed", "toolDone"}
  /\ calls' = [j \in CallIds |->
                 IF j = k THEN IdleCall ELSE [calls[j] EXCEPT !.peers = @ \ {k}]]
  /\ UNCHANGED <<connections, threadConnections, threadLastActivity, userThreadMapping,
                 userLastActivity, now, conn, dtcTasks, dtsTasks, dutTasks, allTask,
                 reaped, nonPoolVars>>

\* terminateSession() of a pool teardown's disconnect() settles
\* (connection.ts:798-807).
Dtc_TermDone(x, ok2xx) ==
  /\ x \in dtcTasks /\ x.phase = "term"
  /\ Commit([Cur EXCEPT !.cn[x.c] = DisconnectTermDone(conn[x.c], ok2xx),
                        !.dtc = (@ \ {x}) \cup {[x EXCEPT !.phase = "close"]}])
  /\ UNCHANGED <<now, nonPoolVars>>

\* client.close() of a pool teardown's disconnect() settles
\* (connection.ts:807-825, manager.ts:728-729, 742-752, 772-783).
Dtc_CloseDone(x, ok) ==
  /\ x \in dtcTasks /\ x.phase = "close"
  /\ Commit(Drain([Cur EXCEPT
                     !.cn[x.c] = DisconnectCloseDone(conn[x.c], ok),
                     !.dtc = (@ \ {x}) \cup
                             {[x EXCEPT !.phase = IF ok THEN "done" ELSE "failed"]}]))
  /\ UNCHANGED <<now, nonPoolVars>>

\* disconnectAll() is called (manager.ts:1095-1101).
DisconnectAll_Start ==
  /\ allTask.pc = "idle"
  /\ LET P1 == StartDUTs(Cur, AllRoot, {u \in Users : userThreadMapping[u] # {}})
     IN Commit(Drain([P1 EXCEPT !.all = [pc |-> "users", pending |-> {}, fresh |-> FALSE]]))
  /\ UNCHANGED <<now, nonPoolVars>>

\* disconnectAll: terminateSession() of an app connection's disconnect() settles.
App_TermDone(x, ok2xx) ==
  /\ allTask.pc = "apps" /\ x \in allTask.pending /\ x.phase = "term"
  /\ Commit([Cur EXCEPT !.cn[x.c] = DisconnectTermDone(conn[x.c], ok2xx),
                        !.all.pending = (@ \ {x}) \cup {[x EXCEPT !.phase = "close"]}])
  /\ UNCHANGED <<now, nonPoolVars>>

\* disconnectAll: client.close() of an app connection's disconnect() settles
\* (manager.ts:1107-1113).
App_CloseDone(x, ok) ==
  /\ allTask.pc = "apps" /\ x \in allTask.pending /\ x.phase = "close"
  /\ Commit(Drain([Cur EXCEPT
                     !.cn[x.c] = DisconnectCloseDone(conn[x.c], ok),
                     !.all.pending = (@ \ {x}) \cup
                             {[x EXCEPT !.phase = IF ok THEN "done" ELSE "failed"]}]))
  /\ UNCHANGED <<now, nonPoolVars>>

TaskPhases == {"term", "close", "done", "failed"}
DtcFrames == [root : {ReaperRoot(g) : g \in 1..MaxRoots} \cup {CallRoot(k) : k \in CallIds}
                       \cup {AllRoot},
              u : Users \cup {NoUser}, t : Threads, s : Servers, c : ThreadConnIds,
              phase : TaskPhases]
AppFrames == [c : AppConnIds, phase : TaskPhases]

\* Acquisitions and tool calls by callers that use the threads Ts, the servers
\* Ss and the entry points Es (TRUE: callTool, FALSE: getThreadConnection).
PoolCalls(Ts, Ss, Es) ==
  \/ \E k \in CallIds, t \in Ts, s \in Ss, tool \in Es : GTC_Enter(k, t, s, tool)
  \/ \E k \in CallIds, pingOk \in BOOLEAN : GTC_PingDone(k, pingOk)
  \/ \E k \in CallIds : GTC_InitOk(k)
  \/ \E k \in CallIds : GTC_InitFail(k)
  \/ \E k \in CallIds, pingOk \in BOOLEAN : GTC_CheckDone(k, pingOk)
  \/ \E k \in CallIds, ok2xx \in BOOLEAN : GTC_CleanupTermDone(k, ok2xx)
  \/ \E k \in CallIds, ok \in BOOLEAN : GTC_CleanupCloseDone(k, ok)
  \/ \E k \in CallIds : Release(k)

PoolTools ==
  \/ \E k \in CallIds, pingOk \in BOOLEAN : Tool_PingDone(k, pingOk)
  \/ \E k \in CallIds, ok \in BOOLEAN : Tool_RequestDone(k, ok)

\* The clock, reclamation passes and the teardowns they start.
PoolReaper ==
  \/ Tick
  \/ GetInstance
  \/ \E x \in DtcFrames, ok2xx \in BOOLEAN : Dtc_TermDone(x, ok2xx)
  \/ \E x \in DtcFrames, ok \in BOOLEAN : Dtc_CloseDone(x, ok)

\* Shutdown.
PoolShutdown ==
  \/ DisconnectAll_Start
  \/ \E x \in AppFrames, ok2xx \in BOOLEAN : App_TermDone(x, ok2xx)
  \/ \E x \in AppFrames, ok \in BOOLEAN : App_CloseDone(x, ok)

\* The pool under the callers of one conversation thread: overlapping
\* getThreadConnection calls for thread t1 on both servers, the clock, and
\* reclamation passes.
NextPool == PoolCalls({"t1"}, Servers, {FALSE}) \/ PoolReaper

\* The pool under getThreadConnection calls for thread t1 on server s1 and
\* disconnectAll() calls, with the teardowns they start; the clock stands still.
NextShutdown ==
  \/ PoolCalls({"t1"}, {"s1"}, {FALSE})
  \/ DisconnectAll_Start
  \/ \E x \in AppFrames, ok \in BOOLEAN : App_CloseDone(x, ok)
  \/ \E x \in DtcFrames, ok2xx \in BOOLEAN : Dtc_TermDone(x, ok2xx)
  \/ \E x \in DtcFrames, ok \in BOOLEAN : Dtc_CloseDone(x, ok)

\* getThreadConnection for thread t1 on server s1 with the initTimeout race and
\* the retry loops it abandons; teardowns succeed and the clock stands still.
NextInit ==
  \/ \E k \in CallIds : GTC_Enter(k, "t1", "s1", FALSE)
  \/ \E k \in CallIds, pingOk \in BOOLEAN : GTC_PingDone(k, pingOk)
  \/ \E k \in CallIds : GTC_InitOk(k)
  \/ \E k \in CallIds : GTC_InitFail(k)
  \/ \E k \in CallIds, at \in LoopPcs, attempts \in 0..(maxAttempts - 1) :
       GTC_InitTimeout(k, at, attempts)
  \/ \E k \in CallIds, pingOk \in BOOLEAN : GTC_CheckDone(k, pingOk)
  \/ \E k \in CallIds : GTC_CleanupTermDone(k, TRUE)
  \/ \E k \in CallIds : GTC_CleanupCloseDone(k, TRUE)
  \/ \E k \in CallIds : Release(k)
  \/ \E c \in ThreadConnIds : AbandonedInit_Retry(c)
  \/ \E c \in ThreadConnIds, ok \in BOOLEAN : AbandonedInit_ConnectDone(c, ok)

\* The pool under callTool calls with and without a user and a threadId, on
\* both servers; the clock stands still.
NextScope ==
  \/ \E k \in CallIds, s \in Servers : GTC_Enter(k, "t1", s, TRUE)
  \/ \E k \in CallIds, u \in {"u1", NoUser}, t \in {"t1", NoThread}, s \in Servers :
       CallTool_AppEnter(k, u, t, s)
  \/ \E k \in CallIds, pingOk \in BOOLEAN : GTC_PingDone(k, pingOk)
  \/ \E k \in CallIds : GTC_InitOk(k)
  \/ \E k \in CallIds : GTC_InitFail(k)
  \/ \E k \in CallIds, pingOk \in BOOLEAN : GTC_CheckDone(k, pingOk)
  \/ \E k \in CallIds, ok2xx \in BOOLEAN : GTC_CleanupTermDone(k, ok2xx)
  \/ \E k \in CallIds, ok \in BOOLEAN : GTC_CleanupCloseDone(k, ok)
  \/ \E k \in CallIds : Release(k)
  \/ PoolTools

\* The pool under overlapping callTool calls for thread t1 on server s1, the
\* clock, and reclamation passes; pings answer, initialisation succeeds and
\* client.close() does not throw.
NextTools ==
  \/ \E k \in CallIds : GTC_Enter(k, "t1", "s1", TRUE)
  \/ \E k \in CallIds : GTC_PingDone(k, TRUE)
  \/ \E k \in CallIds : GTC_InitOk(k)
  \/ \E k \in CallIds : GTC_CheckDone(k, TRUE)
  \/ \E k \in CallIds : Release(k)
  \/ \E k \in CallIds : Tool_PingDone(k, TRUE)
  \/ \E k \in CallIds, ok \in BOOLEAN : Tool_RequestDone(k, ok)
  \/ Tick
  \/ GetInstance
  \/ \E x \in DtcFrames : Dtc_TermDone(x, TRUE)
  \/ \E x \in DtcFrames : Dtc_CloseDone(x, TRUE)



(***************************************************************************)
(* Authorization coordinator: the oauthRequired handler that               *)
(* getThreadConnection wires to a Connection (manager.ts:555-595) and      *)
(* handleOAuthRequired (manager.ts:1185-1280).  The flow store is an       *)
(* external collaborator; its three operations follow its interface.       *)
(***************************************************************************)
MaxTriggers == 2
TriggerIds == 1..MaxTriggers
Principal == "u1"
NoTokens == "null"
Tokens == {"tokA", "tokB"}

\* MCPOAuthHandler.generateFlowId(userId, serverName): deterministic.
GenerateFlowId(u, s) == <<u, s>>
FlowIds == {GenerateFlowId(Principal, s) : s \in Servers}

NoFlow == [status |-> "NONE", result |-> NoTokens]

\* flowManager.getFlowState(flowId, 'mcp_oauth')
GetFlowState(fl, fid) == fl[fid]

\* flowManager.createFlow(flowId, 'mcp_oauth', metadata?): attaches to a pending
\* flow, otherwise records a new pending flow; the caller then waits for it.
CreateFlow(fl, fid) ==
  IF fl[fid].status = "PENDING" THEN fl
  ELSE [fl EXCEPT ![fid] = [status |-> "PENDING", result |-> NoTokens]]

IdleTrig ==
  [pc |-> "idle", flowId |-> GenerateFlowId(Principal, "none"), hasStart |-> FALSE,
   result |-> NoTokens, outcome |-> "none", peers |-> {},
   tokenMethods |-> TRUE, setTokens |-> FALSE]

InFlightPcs == {"getFlowState", "attached", "initiate", "oauthStart", "created",
                "oauthEnd", "store"}

InitOAuth ==
  /\ flows = [fid \in FlowIds |-> NoFlow]
  /\ trig = [i \in TriggerIds |-> IdleTrig]
  /\ initiated = [fid \in FlowIds |-> 0]
  /\ urls = [fid \in FlowIds |-> 0]

\* The handler of the trigger has called MCPTokenStorage.storeTokens
\* (manager.ts:564-575).
StoreInvoked(fr) == fr.setTokens

\* handleOAuthRequired returned null, or a result without tokens: the handler
\* emits oauthFailed (manager.ts:586-594).
EmitOAuthFailed(fr) ==
  [fr EXCEPT !.pc = "done", !.result = NoTokens, !.outcome = "oauthFailed"]

\* A Connection of the principal emits oauthRequired for server s; the handler
\* calls handleOAuthRequired, which runs up to `await getFlowState`
\* (manager.ts:555-562, 1203-1220).  tokenMethods: the caller of
\* getThreadConnection passed token methods with createToken (435, 564).
HOR_Enter(i, s, configured, hasStart, tokenMethods) ==
  /\ trig[i].pc = "idle"
  /\ \A j \in TriggerIds : j < i => trig[j].pc # "idle"
  /\ LET fid == GenerateFlowId(Principal, s)
         others == {j \in TriggerIds \ {i} :
                      trig[j].pc \in InFlightPcs /\ trig[j].flowId = fid}
         fr == [IdleTrig EXCEPT !.flowId = fid, !.hasStart = hasStart, !.peers = others,
                                !.tokenMethods = tokenMethods]
     IN /\ trig' = [trig EXCEPT ![i] = IF configured
                                         THEN [fr EXCEPT !.pc = "getFlowState"]
                                         ELSE EmitOAuthFailed(fr)]
        \* a burst of triggers starts when none is in flight for the flow id
        /\ initiated' = IF others = {} THEN [initiated EXCEPT ![fid] = 0] ELSE initiated
        /\ urls' = IF others = {} THEN [urls EXCEPT ![fid] = 0] ELSE urls
  /\ UNCHANGED <<flows, poolVars, connVars, otherVars>>

\* getFlowState settles (manager.ts:1220-1244).
HOR_GetFlowStateDone(i, ok) ==
  /\ trig[i].pc = "getFlowState"
  /\ LET fid == trig[i].flowId
         existingFlow == GetFlowState(flows, fid)
     IN IF ~ok
          THEN /\ trig' = [trig EXCEPT ![i] = EmitOAuthFailed(@)]
               /\ UNCHANGED <<flows, initiated>>
          ELSE IF existingFlow.status = "PENDING"
            THEN /\ flows' = CreateFlow(flows, fid)
                 /\ trig' = [trig EXCEPT ![i].pc = "attached"]
                 /\ UNCHANGED initiated
            ELSE /\ trig' = [trig EXCEPT ![i].pc = "initiate"]
                 /\ initiated' = [initiated EXCEPT ![fid] = @ + 1]
                 /\ UNCHANGED flows
  /\ UNCHANGED <<urls, poolVars, connVars, otherVars>>

\* MCPOAuthHandler.initiateOAuthFlow settles (manager.ts:1244-1267).
HOR_InitiateDone(i, ok) ==
  /\ trig[i].pc = "initiate"
  /\ LET fid == trig[i].flowId
     IN IF ~ok
          THEN /\ trig' = [trig EXCEPT ![i] = EmitOAuthFailed(@)]
               /\ UNCHANGED <<flows, urls>>
          ELSE IF trig[i].hasStart
            THEN /\ trig' = [trig EXCEPT ![i].pc = "oauthStart"]
                 /\ urls' = [urls EXCEPT ![fid] = @ + 1]
                 /\ UNCHANGED flows
            ELSE /\ flows' = CreateFlow(flows, fid)
                 /\ trig' = [trig EXCEPT ![i].pc = "created"]
                 /\ UNCHANGED urls
  /\ UNCHANGED <<initiated, poolVars, connVars, otherVars>>

\* oauthStart(authorizationUrl) settles (manager.ts:1248, 1262-1266).
HOR_OAuthStartDone(i, ok) ==
  /\ trig[i].pc = "oauthStart"
  /\ IF ok
       THEN /\ flows' = CreateFlow(flows, trig[i].flowId)
            /\ trig' = [trig EXCEPT ![i].pc = "created"]
       ELSE /\ trig' = [trig EXCEPT ![i] = EmitOAuthFailed(@)]
            /\ UNCHANGED flows
  /\ UNCHANGED <<initiated, urls, poolVars, connVars, otherVars>>

\* The flow is completed from outside (the authorization callback): every
\* createFlow waiting on it resolves with its result and goes on to oauthEnd
\* (manager.ts:1226-1229, 1262-1269).
Flow_Complete(fid, tokens) ==
  /\ flows[fid].status = "PENDING"
  /\ flows' = [flows EXCEPT ![fid] = [status |-> "COMPLETED", result |-> tokens]]
  /\ trig' = [i \in TriggerIds |->
                IF trig[i].pc \in {"attached", "created"} /\ trig[i].flowId = fid
                  THEN [trig[i] EXCEPT !.pc = "oauthEnd", !.result = tokens]
                  ELSE trig[i]]
  /\ UNCHANGED <<initiated, urls, poolVars, connVars, otherVars>>

\* The flow fails or times out in the store: every createFlow waiting on it
\* rejects, handleOAuthRequired returns null (manager.ts:1276-1279).
Flow_Fail(fid) ==
  /\ flows[fid].status = "PENDING"
  /\ flows' = [flows EXCEPT ![fid] = [status |-> "FAILED", result |-> NoTokens]]
  /\ trig' = [i \in TriggerIds |->
                IF trig[i].pc \in {"attached", "created"} /\ trig[i].flowId = fid
                  THEN EmitOAuthFailed(trig[i])
                  ELSE trig[i]]
  /\ UNCHANGED <<initiated, urls, poolVars, connVars, otherVars>>

\* oauthEnd() settles and handleOAuthRequired returns (manager.ts:1227-1237,
\* 1267-1275).  With tokens and token methods the handler calls setOAuthTokens
\* and awaits storeTokens; with tokens and no token methods it emits
\* oauthHandled at once; without tokens it emits oauthFailed (564-594).
HOR_OAuthEndDone(i, ok) ==
  /\ trig[i].pc = "oauthEnd"
  /\ trig' = [trig EXCEPT ![i] =
                IF ok /\ @.result # NoTokens
                  THEN IF @.tokenMethods
                         THEN [@ EXCEPT !.pc = "store", !.setTokens = TRUE]
                         ELSE [@ EXCEPT !.pc = "done", !.outcome = "oauthHandled"]
                  ELSE EmitOAuthFailed(@)]
  /\ UNCHANGED <<flows, initiated, urls, poolVars, connVars, otherVars>>

\* MCPTokenStorage.storeTokens settles; a failure is logged, and oauthHandled is
\* emitted either way (manager.ts:567-587).
Handler_StoreDone(i) ==
  /\ trig[i].pc = "store"
  /\ trig' = [trig EXCEPT ![i].pc = "done", ![i].outcome = "oauthHandled"]
  /\ UNCHANGED <<flows, initiated, urls, poolVars, connVars, otherVars>>

\* The handler runs of a burst are over; their frames can be used again.
Trig_Release(i) ==
  /\ trig[i].pc = "done"
  /\ \A j \in TriggerIds : trig[j].flowId = trig[i].flowId => trig[j].pc \notin InFlightPcs
  /\ trig' = [j \in TriggerIds |->
                IF j = i THEN IdleTrig ELSE [trig[j] EXCEPT !.peers = @ \ {i}]]
  /\ UNCHANGED <<flows, initiated, urls, poolVars, connVars, otherVars>>

NextOAuth ==
  \/ \E i \in TriggerIds, s \in Servers, configured, hasStart \in BOOLEAN :
       HOR_Enter(i, s, configured, hasStart, TRUE)
  \/ \E i \in TriggerIds, ok \in BOOLEAN : HOR_GetFlowStateDone(i, ok)
  \/ \E i \in TriggerIds, ok \in BOOLEAN : HOR_InitiateDone(i, ok)
  \/ \E i \in TriggerIds, ok \in BOOLEAN : HOR_OAuthStartDone(i, ok)
  \/ \E fid \in FlowIds, tokens \in Tokens \cup {NoTokens} : Flow_Complete(fid, tokens)
  \/ \E fid \in FlowIds : Flow_Fail(fid)
  \/ \E i \in TriggerIds, ok \in BOOLEAN : HOR_OAuthEndDone(i, ok)
  \/ \E i \in TriggerIds : Handler_StoreDone(i)
  \/ \E i \in TriggerIds : Trig_Release(i)

\* The handler with and without token methods, for server s1.
NextEvents ==
  \/ \E i \in TriggerIds, configured, hasStart, tokenMethods \in BOOLEAN :
       HOR_Enter(i, "s1", configured, hasStart, tokenMethods)
  \/ \E i \in TriggerIds, ok \in BOOLEAN : HOR_GetFlowStateDone(i, ok)
  \/ \E i \in TriggerIds, ok \in BOOLEAN : HOR_InitiateDone(i, ok)
  \/ \E i \in TriggerIds, ok \in BOOLEAN : HOR_OAuthStartDone(i, ok)
  \/ \E fid \in FlowIds, tokens \in Tokens \cup {NoTokens} : Flow_Complete(fid, tokens)
  \/ \E fid \in FlowIds : Flow_Fail(fid)
  \/ \E i \in TriggerIds, ok \in BOOLEAN : HOR_OAuthEndDone(i, ok)
  \/ \E i \in TriggerIds : Handler_StoreDone(i)
  \/ \E i \in TriggerIds : Trig_Release(i)

(***************************************************************************)
(* One MCPConnection in detail (connection.ts).  The Connection uses a     *)
(* streamable-http server.  Its asynchronous activities are connect()      *)
(* calls from outside, reconnect loops (handleReconnection), one session   *)
(* recovery (handleSessionRecovery) and the connectClient attempts they    *)
(* start; each attempt constructs one transport, and the attempt's frame   *)
(* stands for that transport as long as it is open.                        *)
(***************************************************************************)
MAX_RECONNECT_ATTEMPTS == 3
MaxAttemptFrames == 2
AttemptsCap == MAX_RECONNECT_ATTEMPTS + 1   \* the history counters saturate
BuiltCap == 2
MaxErrors == 2          \* transport errors in one behaviour
MaxConnects == 2        \* connect() calls from outside in one behaviour
MaxDisconnects == 1     \* disconnect() calls from outside in one behaviour
MaxCloses == 1          \* transports closed by the other side in one behaviour

CallerIds == {"c1", "c2"}
LoopIds == {"l1", "l2"}
RecoveryId == "r"
\* A caller of disconnect() from outside (manager.ts:728, 1089, 1108).
DisconnectId == "d"
\* The tasks that call connect().
ConnectorIds == CallerIds \cup LoopIds \cup {RecoveryId}
TaskIds == ConnectorIds \cup {DisconnectId}
TaskOrder == <<"c1", "c2", "l1", "l2", "r", "d">>
AttIds == 1..MaxAttemptFrames
NoAtt == 0

ConnectPcs == {"discTerm", "discClose", "wait"}

\* sid: the transport has been given a session id by the server; resume: the
\* session id the transport was constructed with (connection.ts:289-293).
FreeAtt == [pc |-> "free", open |-> FALSE, sid |-> FALSE, resume |-> NoAtt]
\* The session-termination request sent by disconnect(): the Mcp-Session-Id
\* header (the transport that was given the id) and whether it carries an
\* Authorization header (connection.ts:669-681).
NoRequest == [sid |-> NoAtt, auth |-> FALSE]
\* overlap: whose connect() was in progress when this task called connect()
\* ("caller", else "task" for a loop or the recovery, else "none"); seen: the
\* connectionState when a caller's connect() resolved; del: the
\* session-termination request the task's disconnect() is waiting for; held:
\* the session id in the Session Record when the task called connect(), kept
\* until its disconnect() has finished.
IdleTask ==
  [pc |-> "idle", a |-> NoAtt, overlap |-> "none", seen |-> "none", del |-> NoRequest,
   held |-> NoAtt]

\* The fields after the constructor (connection.ts:58-79, 326); sessId is the
\* id in the Session Record, named by the transport that was given it.
NewConnection ==
  [connectionState |-> "disconnected", transport |-> NoAtt, clientT |-> NoAtt,
   connectPromise |-> NoAtt, shouldStopReconnecting |-> FALSE,
   isReconnecting |-> FALSE, isInitializing |-> TRUE, reconnectAttempts |-> 0,
   oauthRequired |-> FALSE, sess |-> "none", sessId |-> NoAtt, oauthTokens |-> FALSE]

\* errored: the state has been error since it was last connected; attempts:
\* connect() calls of reconnect loops since then; built, torn: transports
\* constructed, and an in-flight attempt torn down, in the current burst of
\* overlapping connect() calls; errors, connects, disconnects: events so far;
\* stopped: a disconnect() called from outside has returned and connect() has
\* not been called from outside since; everConnected: the state has been
\* connected; createdSeen: what the listeners of the first sessionCreated event
\* saw, a Connection that had been connected before ("connected") or not
\* ("never").
NoHistory ==
  [errored |-> FALSE, attempts |-> 0, built |-> 0, torn |-> FALSE,
   errors |-> 0, connects |-> 0, disconnects |-> 0, stopped |-> FALSE,
   everConnected |-> FALSE, createdSeen |-> "none", closes |-> 0]

\* The state the operations of the Connection transform; ovf is set when an
\* operation needs a frame and none is free.
CurC == [m |-> mc, att |-> att, task |-> task, h |-> hist, ovf |-> FALSE]

\* The history of a burst of overlapping connect() calls is dropped when the
\* burst is over.
EndOfBurst(S) ==
  IF \E x \in TaskIds : S.task[x].pc \in ConnectPcs THEN S
  ELSE [S EXCEPT !.h.built = 0, !.h.torn = FALSE]

CommitC(S) ==
  /\ ~S.ovf
  /\ mc' = S.m
  /\ att' = S.att
  /\ task' = S.task
  /\ hist' = EndOfBurst(S).h

Saturate(n, cap) == IF n < cap THEN n + 1 ELSE cap

\* The while loop of handleReconnection from its condition to the backoff
\* sleep, or to the finally block when the condition fails
\* (connection.ts:372-383, 401-403).
LoopIterate(S, l) ==
  IF S.m.reconnectAttempts < MAX_RECONNECT_ATTEMPTS /\ ~S.m.shouldStopReconnecting
    THEN [S EXCEPT !.m.reconnectAttempts = @ + 1, !.task[l] = [IdleTask EXCEPT !.pc = "backoff"]]
    ELSE [S EXCEPT !.m.isReconnecting = FALSE, !.task[l] = IdleTask]

\* handleReconnection() up to its first await (connection.ts:355-383).
HandleReconnection(S) ==
  IF \/ S.m.isReconnecting \/ S.m.shouldStopReconnecting
     \/ S.m.isInitializing \/ S.m.oauthRequired
    THEN S
    ELSE LET idle == {l \in LoopIds : S.task[l].pc = "idle"}
         IN IF idle = {}
              THEN [S EXCEPT !.ovf = TRUE]
              ELSE LET l == CHOOSE x \in idle : \A y \in idle : x = "l1" \/ y # "l1"
                   IN LoopIterate([S EXCEPT !.m.isReconnecting = TRUE], l)

\* emit('connectionChange', st) with the listener of setupEventListeners
\* (connection.ts:327-350).
EmitChange(S, st) ==
  LET S1 == [S EXCEPT !.m.connectionState = st,
                      !.h.errored = (st = "error") \/ (@ /\ st # "connected")]
  IN IF st = "connected"
       THEN [S1 EXCEPT !.m.isReconnecting = FALSE, !.m.isInitializing = FALSE,
                       !.m.shouldStopReconnecting = FALSE, !.m.reconnectAttempts = 0,
                       !.h.attempts = 0, !.h.everConnected = TRUE]
       ELSE IF st = "error" /\ ~S1.m.isReconnecting /\ ~S1.m.isInitializing
         THEN HandleReconnection(S1)
         ELSE S1

\* Transport a closes: its onclose handler emits 'disconnected'
\* (connection.ts:297-300); the client drops it.
CloseTransport(S, a) ==
  IF a = NoAtt \/ ~S.att[a].open THEN S
  ELSE EmitChange([S EXCEPT !.att[a].open = FALSE, !.att[a].sid = FALSE,
                            !.m.clientT = IF @ = a THEN NoAtt ELSE @],
                  "disconnected")

\* connect() of task x resolves: what its awaiter does next
\* (caller: nothing; loop: connection.ts:387-388, 401-403; recovery: 438-441).
TaskResolved(S, x) ==
  IF x \in CallerIds
    THEN [S EXCEPT !.task[x].pc = "resolved", !.task[x].a = NoAtt,
                   !.task[x].seen = S.m.connectionState]
  ELSE IF x \in LoopIds
    THEN [S EXCEPT !.m.reconnectAttempts = 0, !.m.isReconnecting = FALSE,
                   !.task[x] = IdleTask]
  ELSE [S EXCEPT !.m.isReconnecting = FALSE, !.task[x] = IdleTask]

\* connect() of task x rejects (loop: connection.ts:389-399; recovery: 439-449).
TaskRejected(S, x) ==
  IF x \in CallerIds \cup {DisconnectId}
    THEN [S EXCEPT !.task[x].pc = "rejected", !.task[x].a = NoAtt,
                   !.task[x].held = NoAtt]
  ELSE IF x \in LoopIds
    THEN IF \/ S.m.reconnectAttempts = MAX_RECONNECT_ATTEMPTS
            \/ S.m.shouldStopReconnecting
           THEN [S EXCEPT !.m.isReconnecting = FALSE, !.task[x] = IdleTask]
           ELSE LoopIterate(S, x)
  ELSE EmitChange([S EXCEPT !.m.isReconnecting = FALSE, !.task[x] = IdleTask], "error")

\* connectClient() called by task x (connection.ts:465-496, 599-601): returns
\* at once, attaches to the attempt in flight, or starts an attempt, which
\* constructs a transport and starts the handshake.  this.transport is null
\* here, because disconnect() has just cleared it (connection.ts:700-701, 808).
ConnectClient(S, x) ==
  IF S.m.connectionState = "connected" THEN TaskResolved(S, x)
  ELSE IF S.m.connectPromise # NoAtt
    THEN [S EXCEPT !.task[x].pc = "wait", !.task[x].a = S.m.connectPromise]
  ELSE IF S.m.shouldStopReconnecting THEN TaskResolved(S, x)
  ELSE LET free == {a \in AttIds : S.att[a].pc = "free" /\ ~S.att[a].open}
           S1 == EmitChange(S, "connecting")
       IN IF free = {}
            THEN [S EXCEPT !.ovf = TRUE]
            ELSE LET a == CHOOSE b \in free : \A d \in free : b <= d
                 IN [S1 EXCEPT !.att[a] = [pc |-> "handshake", open |-> TRUE, sid |-> FALSE,
                                           resume |-> S1.m.sessId],
                               !.m.transport = a, !.m.clientT = a,
                               !.m.connectPromise = a,
                               !.h.built = Saturate(@, BuiltCap),
                               !.task[x].pc = "wait", !.task[x].a = a]

\* clearSession (connection.ts:129-135).
ClearSession(S) == [S EXCEPT !.m.sess = "none", !.m.sessId = NoAtt]

\* extractSessionFromConnection after the handshake of attempt a: the Session
\* Record is set from this.transport if that transport has a session id, and
\* sessionCreated is emitted (connection.ts:508-511, 628-654).
ExtractSession(S, a) ==
  LET S1 == [S EXCEPT !.att[a].sid = TRUE]
      tr == S1.m.transport
  IN IF tr # NoAtt /\ S1.att[tr].sid
       THEN [S1 EXCEPT !.m.sess = "active", !.m.sessId = tr,
                       !.h.createdSeen = IF @ # "none" THEN @
                                         ELSE IF S1.h.everConnected THEN "connected"
                                         ELSE "never"]
       ELSE S1

\* disconnect() without clearSession().
DisconnectTail_KeepSession(S, x) ==
  LET S2 == IF S.m.connectionState = "disconnected" THEN S
            ELSE EmitChange(S, "disconnected")
      S3 == [S2 EXCEPT !.m.connectPromise = NoAtt, !.task[x].held = NoAtt]
  IN IF x = DisconnectId
       THEN [S3 EXCEPT !.task[x].pc = "resolved", !.task[x].a = NoAtt,
                       !.h.stopped = TRUE]
       ELSE ConnectClient(S3, x)

\* The end of disconnect() once the transport is out of the way; disconnect()
\* then resolves, and inside connect() the connectClient() call follows
\* (connection.ts:811-824, 701-704).  `!this.isConnected()` tests a Promise, so
\* connect() never throws after connectClient() has resolved.
DisconnectTail(S, x) ==
  LET S1 == ClearSession(S)
      S2 == IF S1.m.connectionState = "disconnected" THEN S1
            ELSE EmitChange(S1, "disconnected")
      S3 == [S2 EXCEPT !.m.connectPromise = NoAtt, !.task[x].held = NoAtt]
  IN IF x = DisconnectId
       THEN [S3 EXCEPT !.task[x].pc = "resolved", !.task[x].a = NoAtt,
                       !.h.stopped = TRUE]
       ELSE ConnectClient(S3, x)

\* disconnect() that closes the client without terminating the session.
StartConnect_NoTerminate(S, x) ==
  IF S.m.transport # NoAtt
    THEN [S EXCEPT !.task[x].pc = "discClose", !.task[x].a = S.m.clientT]
    ELSE DisconnectTail(S, x)

\* connect() called by task x, or disconnect() called by the task
\* DisconnectId, up to its first await (connection.ts:698-700, 794-808).
StartConnect(S, x) ==
  LET others == {y \in ConnectorIds \ {x} : S.task[y].pc \in ConnectPcs}
      S1 == [S EXCEPT !.task[x].overlap =
                        IF others \cap CallerIds # {} THEN "caller"
                        ELSE IF others # {} THEN "task" ELSE "none",
                      !.task[x].held = S.m.sessId]
  IN IF S1.m.transport # NoAtt
       THEN IF S1.m.sess = "active"
              THEN [S1 EXCEPT !.task[x].pc = "discTerm",
                              !.task[x].del = [sid |-> S1.m.sessId,
                                               auth |-> S1.m.oauthTokens]]
              ELSE [S1 EXCEPT !.task[x].pc = "discClose", !.task[x].a = S1.m.clientT]
       ELSE DisconnectTail(S1, x)

\* The attempt's promise settles: the finally block clears connectPromise and
\* the connect() calls waiting on it go on (connection.ts:599-601, 701-708).
RECURSIVE SettleWaiters(_, _, _, _)
SettleWaiters(S, a, ok, i) ==
  IF i > Len(TaskOrder) THEN S
  ELSE LET x == TaskOrder[i]
           S1 == IF S.task[x].pc = "wait" /\ S.task[x].a = a
                   THEN IF ok THEN TaskResolved(S, x) ELSE TaskRejected(S, x)
                   ELSE S
       IN SettleWaiters(S1, a, ok, i + 1)

AttSettle(S, a, ok) ==
  SettleWaiters([S EXCEPT !.m.connectPromise = NoAtt, !.att[a].pc = "free"], a, ok, 1)

\* handleSessionRecovery() without the check of isReconnecting.
HandleSessionRecovery_Unguarded(S) ==
  IF S.m.shouldStopReconnecting \/ S.m.isInitializing
    THEN S
  ELSE IF S.task[RecoveryId].pc # "idle" THEN [S EXCEPT !.ovf = TRUE]
  ELSE LET S1 == [ClearSession(S) EXCEPT !.m.isReconnecting = TRUE]
       IN IF S1.m.transport # NoAtt
            THEN [S1 EXCEPT !.task[RecoveryId].pc = "rclose",
                            !.task[RecoveryId].a = S1.m.transport]
            ELSE [S1 EXCEPT !.task[RecoveryId].pc = "rdelay"]

\* handleSessionRecovery() up to its first await (connection.ts:409-432).
HandleSessionRecovery(S) ==
  IF S.m.isReconnecting \/ S.m.shouldStopReconnecting \/ S.m.isInitializing
    THEN S
  ELSE IF S.task[RecoveryId].pc # "idle" THEN [S EXCEPT !.ovf = TRUE]
  ELSE LET S1 == [ClearSession(S) EXCEPT !.m.isReconnecting = TRUE]
       IN IF S1.m.transport # NoAtt
            THEN [S1 EXCEPT !.task[RecoveryId].pc = "rclose",
                            !.task[RecoveryId].a = S1.m.transport]
            ELSE [S1 EXCEPT !.task[RecoveryId].pc = "rdelay"]

InitConn ==
  /\ mc = NewConnection
  /\ att = [a \in AttIds |-> FreeAtt]
  /\ task = [x \in TaskIds |-> IdleTask]
  /\ hist = NoHistory

\* A caller from outside calls connect() (manager.ts:286,
\* SessionAwareMCPManager.ts:143,185).
CallerConnect(c) ==
  /\ task[c].pc = "idle"
  /\ c = "c2" => task["c1"].pc # "idle"
  /\ hist.connects < MaxConnects
  /\ CommitC(StartConnect([CurC EXCEPT !.h.connects = @ + 1, !.h.stopped = FALSE], c))
  /\ UNCHANGED <<poolVars, oauthVars, otherVars>>

\* The caller drops the settled connect().
CallerRelease(c) ==
  /\ task[c].pc \in {"resolved", "rejected"}
  /\ CommitC([CurC EXCEPT !.task = [x \in TaskIds |->
                 IF x = c THEN IdleTask
                 ELSE IF x \in CallerIds /\ task[x].overlap = "caller"
                   THEN [task[x] EXCEPT !.overlap = "task"]
                   ELSE task[x]]])
  /\ UNCHANGED <<poolVars, oauthVars, otherVars>>

\* A caller from outside calls disconnect().
CallerDisconnect ==
  /\ task[DisconnectId].pc = "idle"
  /\ hist.disconnects < MaxDisconnects
  /\ CommitC(StartConnect([CurC EXCEPT !.h.disconnects = @ + 1], DisconnectId))
  /\ UNCHANGED <<poolVars, oauthVars, otherVars>>

\* The caller drops the settled disconnect().
DisconnectRelease ==
  /\ task[DisconnectId].pc \in {"resolved", "rejected"}
  /\ CommitC([CurC EXCEPT !.task[DisconnectId] = IdleTask])
  /\ UNCHANGED <<poolVars, oauthVars, otherVars>>

\* What the DELETE request of terminateSession() ends with: a 2xx response,
\* 405, another status, or a rejected fetch (connection.ts:678-695).
TerminateResponses == {"2xx", "405", "500", "rejected"}

\* terminateSession() inside disconnect() settles; client.close() is called
\* next (connection.ts:798-807, 660-696).
DiscTermDone_MarkAlways(x, response) ==
  /\ task[x].pc = "discTerm"
  /\ LET S1 == IF mc.sess = "active"
                 THEN [CurC EXCEPT !.m.sess = "terminated"] ELSE CurC
     IN CommitC([S1 EXCEPT !.task[x].pc = "discClose", !.task[x].a = mc.clientT,
                           !.task[x].del = NoRequest])
  /\ UNCHANGED <<poolVars, oauthVars, otherVars>>

DiscTermDone(x, response) ==
  /\ task[x].pc = "discTerm"
  /\ LET S1 == IF response = "2xx" /\ mc.sess = "active"
                 THEN [CurC EXCEPT !.m.sess = "terminated"] ELSE CurC
     IN CommitC([S1 EXCEPT !.task[x].pc = "discClose", !.task[x].a = mc.clientT,
                           !.task[x].del = NoRequest])
  /\ UNCHANGED <<poolVars, oauthVars, otherVars>>

\* client.close() inside disconnect() settles (connection.ts:807-824); on
\* success connect() goes on to connectClient().
DiscCloseDone(x, ok) ==
  /\ task[x].pc = "discClose"
  /\ LET a == task[x].a
         tearsDown == /\ a # NoAtt /\ att[a].open /\ att[a].pc # "free"
                      /\ task[x].overlap # "none"
     IN IF ok
          THEN LET S1 == CloseTransport([CurC EXCEPT !.h.torn = @ \/ tearsDown], a)
               IN CommitC(DisconnectTail([S1 EXCEPT !.m.transport = NoAtt], x))
          ELSE CommitC(TaskRejected([CurC EXCEPT !.m.connectPromise = NoAtt], x))
  /\ UNCHANGED <<poolVars, oauthVars, otherVars>>

\* The handshake of attempt a settles: client.connect() resolves, fails with an
\* authorization error, or fails otherwise (the initTimeout timer included)
\* (connection.ts:496-521, 563-570, 594-601).
AttHandshakeDone(a, outcome) ==
  /\ att[a].pc = "handshake"
  /\ outcome = "ok" => att[a].open
  /\ CommitC(
       IF outcome = "ok"
         THEN AttSettle(EmitChange(ExtractSession(CurC, a), "connected"), a, TRUE)
       ELSE IF outcome = "oauth"
         THEN [CurC EXCEPT !.m.oauthRequired = TRUE, !.att[a].pc = "oauthWait"]
       ELSE AttSettle(EmitChange(CurC, "error"), a, FALSE))
  /\ UNCHANGED <<poolVars, oauthVars, otherVars>>

\* The wait for the authorization round trip ends with oauthHandled, before
\* which the manager's handler has set the tokens, or with oauthFailed or the
\* timeout (connection.ts:572-592, 941-943, manager.ts:564-587).
AttOAuthDone(a, handled) ==
  /\ att[a].pc = "oauthWait"
  /\ CommitC(AttSettle([CurC EXCEPT !.m.oauthRequired = FALSE,
                                    !.m.oauthTokens = @ \/ handled], a, handled))
  /\ UNCHANGED <<poolVars, oauthVars, otherVars>>

\* The error handler of open transport a runs (connection.ts:711-743).
TransportError(a, sessionError) ==
  /\ att[a].open
  /\ sessionError => mc.sess # "none"
  /\ hist.errors < MaxErrors
  /\ LET S1 == [CurC EXCEPT !.h.errors = @ + 1]
     IN CommitC(IF sessionError THEN HandleSessionRecovery(S1)
                ELSE EmitChange(S1, "error"))
  /\ UNCHANGED <<poolVars, oauthVars, otherVars>>

\* Open transport a is closed by the other side and its onclose handler runs
\* (connection.ts:297-300).
TransportClose(a) ==
  /\ att[a].open
  /\ hist.closes < MaxCloses
  /\ CommitC(CloseTransport([CurC EXCEPT !.h.closes = @ + 1], a))
  /\ UNCHANGED <<poolVars, oauthVars, otherVars>>

\* The backoff sleep of reconnect loop l ends; the loop calls connect()
\* (connection.ts:383-386).
LoopBackoffDone(l) ==
  /\ task[l].pc = "backoff"
  /\ CommitC(StartConnect([CurC EXCEPT !.h.attempts =
                 IF hist.errored THEN Saturate(@, AttemptsCap) ELSE @], l))
  /\ UNCHANGED <<poolVars, oauthVars, otherVars>>

\* transport.close() of the session recovery settles (connection.ts:427-432,
\* 439-449).
RecCloseDone(ok) ==
  /\ task[RecoveryId].pc = "rclose"
  /\ CommitC(IF ok
               THEN LET S1 == CloseTransport(CurC, task[RecoveryId].a)
                    IN [S1 EXCEPT !.m.transport = NoAtt,
                                  !.task[RecoveryId].pc = "rdelay",
                                  !.task[RecoveryId].a = NoAtt]
               ELSE TaskRejected(CurC, RecoveryId))
  /\ UNCHANGED <<poolVars, oauthVars, otherVars>>

\* The delay of the session recovery ends; it calls connect()
\* (connection.ts:433-436).
RecDelayDone ==
  /\ task[RecoveryId].pc = "rdelay"
  /\ CommitC(StartConnect(CurC, RecoveryId))
  /\ UNCHANGED <<poolVars, oauthVars, otherVars>>

\* connect() calls of the callers Cs, and what every connect() goes through.
ConnCalls(Cs) ==
  \/ \E c \in Cs : CallerConnect(c)
  \/ \E c \in Cs : CallerRelease(c)
  \/ \E x \in TaskIds, response \in TerminateResponses : DiscTermDone(x, response)
  \/ \E x \in TaskIds, ok \in BOOLEAN : DiscCloseDone(x, ok)
  \/ \E a \in AttIds, outcome \in {"ok", "oauth", "fail"} : AttHandshakeDone(a, outcome)
  \/ \E a \in AttIds, handled \in BOOLEAN : AttOAuthDone(a, handled)

\* Transport errors of the kinds Ks (TRUE: a session error) and the reconnect
\* loops they start.
ConnErrors(Ks) ==
  \/ \E a \in AttIds, sessionError \in Ks : TransportError(a, sessionError)
  \/ \E l \in LoopIds : LoopBackoffDone(l)

\* Session recovery.
ConnRecovery ==
  \/ \E ok \in BOOLEAN : RecCloseDone(ok)
  \/ RecDelayDone

\* disconnect() calls from outside.
ConnDisconnects ==
  \/ CallerDisconnect
  \/ DisconnectRelease

NextConn == ConnCalls(CallerIds) \/ ConnErrors(BOOLEAN) \/ ConnRecovery

\* One caller of connect() and one caller of disconnect().
NextDisc == ConnCalls({"c1"}) \/ ConnDisconnects

\* One caller of connect(), transports closed by the other side, transport
\* errors that are not session errors and the reconnect loops they start; no
\* server asks for authorization and client.close() does not throw.
NextClose ==
  \/ CallerConnect("c1")
  \/ CallerRelease("c1")
  \/ \E x \in TaskIds, response \in TerminateResponses : DiscTermDone(x, response)
  \/ \E x \in TaskIds : DiscCloseDone(x, TRUE)
  \/ \E a \in AttIds, outcome \in {"ok", "fail"} : AttHandshakeDone(a, outcome)
  \/ \E a \in AttIds : TransportClose(a)
  \/ ConnErrors({FALSE})

\* One caller of connect(), one caller of disconnect(), transport errors that
\* are not session errors and the reconnect loops they start; no server asks
\* for authorization and client.close() does not throw.
NextStop ==
  \/ CallerConnect("c1")
  \/ CallerRelease("c1")
  \/ \E x \in TaskIds, response \in TerminateResponses : DiscTermDone(x, response)
  \/ \E x \in TaskIds : DiscCloseDone(x, TRUE)
  \/ \E a \in AttIds, outcome \in {"ok", "fail"} : AttHandshakeDone(a, outcome)
  \/ ConnErrors({FALSE})
  \/ ConnDisconnects

(***************************************************************************)
(* Session tracking of SessionAwareMCPManager                              *)
(* (session/SessionAwareMCPManager.ts).  sessionTracker is a Map from user *)
(* id to a Map from server name to MCPSessionInfo | null; an entry of the  *)
(* inner Map is "absent" (no key), "null", "live" or "terminated".         *)
(***************************************************************************)
NoKey == "absent"
Null == "null"
SessionInfos == {"live", "terminated"}
NoUserSessions == [has |-> FALSE, m |-> [s \in Servers |-> NoKey]]

InitTracker == sessionTracker = [u \in Users |-> NoUserSessions]

\* Map.size of the inner Map of user u
UserSessionsSize(tr, u) == Cardinality({s \in Servers : tr[u].m[s] # NoKey})

\* trackSession (SessionAwareMCPManager.ts:72-88)
TrackSessionOn(tr, userId, serverName, sessionInfo) ==
  LET tr1 == IF ~tr[userId].has THEN [tr EXCEPT ![userId] = [NoUserSessions EXCEPT !.has = TRUE]]
                                ELSE tr
      tr2 == [tr1 EXCEPT ![userId].m[serverName] = sessionInfo]
  IN IF sessionInfo = Null /\ UserSessionsSize(tr2, userId) = 0
       THEN [tr2 EXCEPT ![userId] = NoUserSessions]
       ELSE tr2

TrackSession(userId, serverName, sessionInfo) ==
  /\ sessionTracker' = TrackSessionOn(sessionTracker, userId, serverName, sessionInfo)
  /\ UNCHANGED <<poolVars, oauthVars, connVars, abandonVars, sessionIdVars, errorVars, detectVars,
                 initVars, pingVars>>

\* `this.sessionTracker.delete(userId)` of disconnectUserConnections
\* (SessionAwareMCPManager.ts:222-228)
TrackerDeleteUser(userId) ==
  /\ sessionTracker[userId].has
  /\ sessionTracker' = [sessionTracker EXCEPT ![userId] = NoUserSessions]
  /\ UNCHANGED <<poolVars, oauthVars, connVars, abandonVars, sessionIdVars, errorVars, detectVars,
                 initVars, pingVars>>

\* getAllActiveSessions (SessionAwareMCPManager.ts:96-98): the keys of the copy
GetAllActiveSessions(tr) == {u \in Users : tr[u].has}

\* getSessionStats (SessionAwareMCPManager.ts:101-119)
GetSessionStats(tr) ==
  [totalUsers |-> Cardinality({u \in Users : tr[u].has}),
   totalSessions |->
     Cardinality({p \in Users \X Servers : tr[p[1]].has /\ tr[p[1]].m[p[2]] # NoKey}),
   activeSessions |->
     Cardinality({p \in Users \X Servers : tr[p[1]].has /\ tr[p[1]].m[p[2]] = "live"})]

NextTracker ==
  \/ \E u \in Users, s \in Servers, i \in SessionInfos \cup {Null} : TrackSession(u, s, i)
  \/ \E u \in Users : TrackerDeleteUser(u)

(***************************************************************************)
(* extractSessionFromConnection as a function of the transport's sessionId *)
(* property (connection.ts:628-654), and isValidSessionId                  *)
(* (connection.ts:146-150).  A string is the sequence of its character     *)
(* codes.                                                                  *)
(***************************************************************************)
MaxIdLen == 3
\* space, the two ends of the visible ASCII range, and DEL
IdChars == {32, 33, 126, 127}

RECURSIVE StringsUpTo(_, _)
StringsUpTo(chars, n) ==
  IF n = 0 THEN {<<>>}
  ELSE LET shorter == StringsUpTo(chars, n - 1)
       IN shorter \cup {Append(w, ch) : w \in shorter, ch \in chars}

\* What the transport can carry as sessionId: nothing, a string, or a value
\* that is not a string (a truthy number).
SessionIdValues ==
  {[kind |-> "undefined", chars |-> <<>>], [kind |-> "number", chars |-> <<>>]}
  \cup {[kind |-> "string", chars |-> w] : w \in StringsUpTo(IdChars, MaxIdLen)}

\* isValidSessionId: /^[\x21-\x7E]+$/.test(sessionId) (connection.ts:147-150)
IsValidSessionId(sessionId) ==
  /\ Len(sessionId) > 0
  /\ \A i \in 1..Len(sessionId) : sessionId[i] >= 33 /\ sessionId[i] <= 126

NotExtracted == [done |-> FALSE, hasSession |-> FALSE, sessionId |-> <<>>, created |-> FALSE]

\* extractSessionFromConnection (connection.ts:630-654): `sessionId &&
\* typeof sessionId === 'string'` holds for a non-empty string.
ExtractSessionFromConnection(id) ==
  IF id.kind = "string" /\ id.chars # <<>>
    THEN [done |-> TRUE, hasSession |-> TRUE, sessionId |-> id.chars, created |-> TRUE]
    ELSE [NotExtracted EXCEPT !.done = TRUE]

InitNoSessionId ==
  /\ transportSessionId = [kind |-> "undefined", chars |-> <<>>]
  /\ extracted = NotExtracted

DrawSessionId ==
  /\ transportSessionId \in SessionIdValues
  /\ extracted = NotExtracted

\* The handshake has succeeded and connectClient extracts the session
\* (connection.ts:507-511).
ExtractStep ==
  /\ ~extracted.done
  /\ extracted' = ExtractSessionFromConnection(transportSessionId)
  /\ UNCHANGED <<transportSessionId, poolVars, oauthVars, connVars, trackerVars,
                 abandonVars, errorVars, detectVars,
                 initVars, pingVars>>

(***************************************************************************)
(* isOAuthError (connection.ts:945-962; manager.ts:328-345 is the same     *)
(* function) as a function of the value a connect attempt failed with.     *)
(***************************************************************************)
MaxMsgLen == 3
\* the characters '0', '1', '4' and 'x'
MsgChars == {48, 49, 52, 120}
Str401 == <<52, 48, 49>>
Codes == {401, 403, 500}

\* String.prototype.includes
Includes(str, sub) ==
  \E i \in 0..(Len(str) - Len(sub)) : \A j \in 1..Len(sub) : str[i + j] = sub[j]

\* An error object has a message property that is a string, or another value,
\* or none, and a code property that is a number, or a string, or none.
NoErrorValue ==
  [kind |-> "null", msgKind |-> "absent", message |-> <<>>, codeKind |-> "absent", code |-> 0]

\* The code property: none, a number, or a string of digits.
CodeValues ==
  {[codeKind |-> "absent", code |-> 0]}
  \cup {[codeKind |-> ck, code |-> c] : ck \in {"number", "string"}, c \in Codes}

ErrorValues ==
  {NoErrorValue, [NoErrorValue EXCEPT !.kind = "string"]}
  \cup {[kind |-> "object", msgKind |-> mk, message |-> <<>>,
          codeKind |-> cv.codeKind, code |-> cv.code] :
          mk \in {"absent", "other"}, cv \in CodeValues}
  \cup {[kind |-> "object", msgKind |-> "string", message |-> m,
          codeKind |-> cv.codeKind, code |-> cv.code] :
          m \in StringsUpTo(MsgChars, MaxMsgLen), cv \in CodeValues}

IsOAuthError(error) ==
  IF error.kind # "object" THEN FALSE
  ELSE IF error.msgKind = "string"
    THEN Includes(error.message, Str401)
  ELSE IF error.codeKind # "absent"
    THEN error.codeKind = "number" /\ (error.code = 401 \/ error.code = 403)
  ELSE FALSE

NotClassified == [done |-> FALSE, oauth |-> FALSE]

InitNoError ==
  /\ connectError = NoErrorValue
  /\ classified = NotClassified

DrawError ==
  /\ connectError \in ErrorValues
  /\ classified = NotClassified

\* The catch block of connectClient classifies the error (connection.ts:515-517).
ClassifyStep ==
  /\ ~classified.done
  /\ classified' = [done |-> TRUE, oauth |-> IsOAuthError(connectError)]
  /\ UNCHANGED <<connectError, poolVars, oauthVars, connVars, trackerVars,
                 abandonVars, sessionIdVars, detectVars,
                 initVars, pingVars>>

(***************************************************************************)
(* detectSessionError (connection.ts:750-792) on its own.  A string is a   *)
(* sequence of words; a word of Vocabulary stands for its characters, so   *)
(* String.prototype.includes is the search for a run of words.             *)
(***************************************************************************)
MaxWords == 2
Vocabulary == {"404", "400", "session", "not", "Not", "found", "terminated", "bad",
               "request", "invalid", "Timeout", "expired", "ok"}

\* String.prototype.toLowerCase, word by word
LowerWord(w) ==
  CASE w = "Not" -> "not"
    [] w = "Timeout" -> "timeout"
    [] w = "Error:" -> "error:"
    [] w = "Object]" -> "object]"
    [] OTHER -> w

ToLowerCase(str) == [i \in 1..Len(str) |-> LowerWord(str[i])]

NoThrownError == [kind |-> "null", hasMessage |-> FALSE, message |-> <<>>]

\* null, a primitive (a string), an Error instance, and a plain object with a
\* message property or without one.
ThrownErrors ==
  {NoThrownError, [NoThrownError EXCEPT !.kind = "string"],
   [NoThrownError EXCEPT !.kind = "object"]}
  \cup {[kind |-> k, hasMessage |-> TRUE, message |-> m] :
          k \in {"Error", "object"}, m \in StringsUpTo(Vocabulary, MaxWords)}

\* Error.prototype.toString gives "Error: " and the message,
\* Object.prototype.toString gives "[object Object]".
ErrorToString(error) ==
  IF error.kind = "Error" THEN <<"Error:">> \o error.message
  ELSE <<"[object", "Object]">>

Undefined == "undefined"
SessionIdOf(hasSession) == IF hasSession THEN "session-1" ELSE Undefined

NoSessionError == [type |-> "null", sessionId |-> Undefined]

DetectSessionError_InvalidFirst(error, hasSession) ==
  IF error.kind \in {"null", "string"} THEN NoSessionError
  ELSE
    LET errorStr == ToLowerCase(ErrorToString(error))
        errorMessage == IF error.hasMessage THEN ToLowerCase(error.message) ELSE errorStr
    IN IF \/ Includes(errorStr, <<"400">>)
          \/ Includes(errorMessage, <<"bad", "request">>)
          \/ Includes(errorMessage, <<"invalid", "session">>)
          \/ Includes(errorMessage, <<"session", "invalid">>)
         THEN [type |-> "session_invalid", sessionId |-> SessionIdOf(hasSession)]
       ELSE IF \/ Includes(errorStr, <<"404">>)
               \/ Includes(errorMessage, <<"not", "found">>)
               \/ Includes(errorMessage, <<"session", "not", "found">>)
               \/ Includes(errorMessage, <<"session", "terminated">>)
         THEN [type |-> "session_terminated", sessionId |-> SessionIdOf(hasSession)]
       ELSE IF \/ Includes(errorMessage, <<"timeout">>)
               \/ Includes(errorMessage, <<"expired">>)
               \/ Includes(errorMessage, <<"session", "expired">>)
         THEN [type |-> "session_expired", sessionId |-> SessionIdOf(hasSession)]
       ELSE NoSessionError

DetectSessionError(error, hasSession) ==
  IF error.kind \in {"null", "string"} THEN NoSessionError
  ELSE
    LET errorStr == ToLowerCase(ErrorToString(error))
        errorMessage == IF error.hasMessage THEN ToLowerCase(error.message) ELSE errorStr
    IN IF \/ Includes(errorStr, <<"404">>)
          \/ Includes(errorMessage, <<"not", "found">>)
          \/ Includes(errorMessage, <<"session", "not", "found">>)
          \/ Includes(errorMessage, <<"session", "terminated">>)
         THEN [type |-> "session_terminated", sessionId |-> SessionIdOf(hasSession)]
       ELSE IF \/ Includes(errorStr, <<"400">>)
               \/ Includes(errorMessage, <<"bad", "request">>)
               \/ Includes(errorMessage, <<"invalid", "session">>)
               \/ Includes(errorMessage, <<"session", "invalid">>)
         THEN [type |-> "session_invalid", sessionId |-> SessionIdOf(hasSession)]
       ELSE IF \/ Includes(errorMessage, <<"timeout">>)
               \/ Includes(errorMessage, <<"expired">>)
               \/ Includes(errorMessage, <<"session", "expired">>)
         THEN [type |-> "session_expired", sessionId |-> SessionIdOf(hasSession)]
       ELSE NoSessionError

NotDetected == [done |-> FALSE, result |-> NoSessionError]

InitNoDetect ==
  /\ thrownError = [error |-> NoThrownError, hasSession |-> FALSE]
  /\ detected = NotDetected

DrawThrownError ==
  /\ thrownError \in [error : ThrownErrors, hasSession : BOOLEAN]
  /\ detected = NotDetected

DetectStep ==
  /\ ~detected.done
  /\ detected' = [done |-> TRUE,
                  result |-> DetectSessionError(thrownError.error, thrownError.hasSession)]
  /\ UNCHANGED <<thrownError, poolVars, oauthVars, connVars, trackerVars,
                 abandonVars, sessionIdVars, errorVars, initVars, pingVars>>

(***************************************************************************)
(* initializeServer (manager.ts:268-326) on its own: one call, the         *)
(* outcomes of the calls it awaits chosen freely.                          *)
(***************************************************************************)
\* What connection.connect() ends with: it resolves, or rejects with an
\* authorization error carrying the isOAuthError flag, with another error that
\* isOAuthError() accepts, or with any other error.
ConnectOutcomes == {"resolved", "oauthFlagged", "oauth", "failed"}
OAuthErrors == {"oauthFlagged", "oauth"}

NoInitServer ==
  [pc |-> "idle", handleOAuth |-> FALSE, hasUrl |-> FALSE, attempts |-> 0,
   oauthHandled |-> FALSE, connects |-> 0, errors |-> <<>>, thrown |-> 0]

\* throw error
InitServerThrow(F) == [F EXCEPT !.pc = "thrown", !.thrown = Len(F.errors)]

\* The catch block with the check for authorization errors left out.
InitServerCatch_RetryOAuth(F, error) ==
  LET F1 == [F EXCEPT !.attempts = @ + 1, !.errors = Append(@, error)]
  IN IF F1.attempts = maxAttempts THEN InitServerThrow(F1)
     ELSE [F1 EXCEPT !.pc = "sleep"]

\* The catch block of the loop (manager.ts:291-324), up to its first await or
\* its throw.
InitServerCatch(F, error) ==
  LET F1 == [F EXCEPT !.attempts = @ + 1, !.errors = Append(@, error)]
  IN IF error \in OAuthErrors
       THEN IF F1.handleOAuth /\ ~F1.oauthHandled /\ error = "oauthFlagged"
              THEN LET F2 == [F1 EXCEPT !.oauthHandled = TRUE]
                   IN IF F2.hasUrl THEN [F2 EXCEPT !.pc = "handleOAuth"]
                      ELSE InitServerThrow(F2)
              ELSE InitServerThrow(F1)
     ELSE IF F1.attempts = maxAttempts THEN InitServerThrow(F1)
     ELSE [F1 EXCEPT !.pc = "sleep"]

InitNoInitServer == initServer = NoInitServer

\* initializeServer has been called and awaits its first connect().
DrawInitServer ==
  initServer \in {[NoInitServer EXCEPT !.pc = "connect", !.connects = 1,
                                       !.handleOAuth = h, !.hasUrl = u] :
                    h \in BOOLEAN, u \in BOOLEAN}

\* connection.connect() settles (manager.ts:286-291).
InitServer_ConnectDone(outcome) ==
  /\ initServer.pc = "connect"
  /\ initServer' = IF outcome = "resolved"
                     THEN [initServer EXCEPT !.pc = "isConnected"]
                     ELSE InitServerCatch(initServer, outcome)
  /\ UNCHANGED <<poolVars, oauthVars, connVars, trackerVars, abandonVars,
                 sessionIdVars, errorVars, detectVars, pingVars>>

\* connection.isConnected() settles (manager.ts:287-290).
InitServer_IsConnectedDone(connected) ==
  /\ initServer.pc = "isConnected"
  /\ initServer' = IF connected THEN [initServer EXCEPT !.pc = "returned"]
                   ELSE InitServerCatch(initServer, "notConnected")
  /\ UNCHANGED <<poolVars, oauthVars, connVars, trackerVars, abandonVars,
                 sessionIdVars, errorVars, detectVars, pingVars>>

\* handleOAuthRequired() returns; it catches its own errors (manager.ts:304-317,
\* 1212-1281).
InitServer_HandleOAuthDone ==
  /\ initServer.pc = "handleOAuth"
  /\ initServer' = InitServerThrow(initServer)
  /\ UNCHANGED <<poolVars, oauthVars, connVars, trackerVars, abandonVars,
                 sessionIdVars, errorVars, detectVars, pingVars>>

\* The backoff timer fires and the loop calls connect() again (manager.ts:323,
\* 284-286).
InitServer_SleepDone ==
  /\ initServer.pc = "sleep"
  /\ initServer' = [initServer EXCEPT !.pc = "connect", !.connects = @ + 1]
  /\ UNCHANGED <<poolVars, oauthVars, connVars, trackerVars, abandonVars,
                 sessionIdVars, errorVars, detectVars, pingVars>>

NextInitServer ==
  \/ \E outcome \in ConnectOutcomes : InitServer_ConnectDone(outcome)
  \/ \E connected \in BOOLEAN : InitServer_IsConnectedDone(connected)
  \/ InitServer_HandleOAuthDone
  \/ InitServer_SleepDone

(***************************************************************************)
(* The send interceptor that setupTransportDebugHandlers puts on the       *)
(* transport (connection.ts:614-623), with the clock in minutes.           *)
(***************************************************************************)
MaxDateNow == 12
FIVE_MINUTES == 5

\* An outbound message: its result property is absent, null, an empty object
\* or an object with keys; it has a method property or not.
Messages == [result : {"absent", "null", "empty", "keys"}, method : BOOLEAN]

\* 'result' in msg && !('method' in msg) && Object.keys(msg.result ?? {}).length === 0
IsEmptyReply(msg) == msg.result \in {"null", "empty"} /\ ~msg.method

\* sendLog: what became of the last message, whether an empty reply has been
\* handed to the transport's own send yet, and when the last one was.
NoSend == [outcome |-> "none", emptyReply |-> FALSE, letThrough |-> FALSE, at |-> 0]

\* The constructor sets lastPingTime to Date.now() (connection.ts:92).
InitNoPing ==
  /\ dateNow = 0
  /\ lastPingTime = dateNow
  /\ sendLog = NoSend

\* Time passes.
PingTick(d) ==
  /\ dateNow + d <= MaxDateNow
  /\ dateNow' = dateNow + d
  /\ UNCHANGED <<lastPingTime, sendLog, poolVars, oauthVars, connVars, trackerVars,
                 abandonVars, sessionIdVars, errorVars, detectVars, initVars>>

\* transport.send(msg) (connection.ts:614-623)
Send(msg) ==
  /\ IF IsEmptyReply(msg)
       THEN IF dateNow - lastPingTime < FIVE_MINUTES
              THEN /\ sendLog' = [sendLog EXCEPT !.outcome = "rejected", !.emptyReply = TRUE]
                   /\ UNCHANGED lastPingTime
              ELSE /\ lastPingTime' = dateNow
                   /\ sendLog' = [outcome |-> "sent", emptyReply |-> TRUE,
                                  letThrough |-> TRUE, at |-> dateNow]
       ELSE /\ sendLog' = [sendLog EXCEPT !.outcome = "sent", !.emptyReply = FALSE]
            /\ UNCHANGED lastPingTime
  /\ UNCHANGED <<dateNow, poolVars, oauthVars, connVars, trackerVars,
                 abandonVars, sessionIdVars, errorVars, detectVars, initVars>>

NextPing ==
  \/ \E d \in {1, FIVE_MINUTES} : PingTick(d)
  \/ \E msg \in Messages : Send(msg)

(***************************************************************************)
(* Specifications                                                          *)
(***************************************************************************)
InitManager == InitPool /\ InitOAuth /\ InitConn /\ InitTracker /\ InitAbandon

\* The components modelled on their own, before any input is drawn.
InitNoInput ==
  InitNoSessionId /\ InitNoError /\ InitNoDetect /\ InitNoInitServer /\ InitNoPing

Init == InitManager /\ InitNoInput

\* The transport's sessionId is drawn from SessionIdValues.
InitSessionId ==
  InitManager /\ DrawSessionId /\ InitNoError /\ InitNoDetect /\ InitNoInitServer /\ InitNoPing

\* The error of the failed connect is drawn from ErrorValues.
InitError ==
  InitManager /\ InitNoSessionId /\ DrawError /\ InitNoDetect /\ InitNoInitServer /\ InitNoPing

\* The error handed to detectSessionError is drawn from ThrownErrors.
InitDetect ==
  InitManager /\ InitNoSessionId /\ InitNoError /\ DrawThrownError /\ InitNoInitServer /\ InitNoPing

\* One initializeServer call, with handleOAuth and the server URL drawn.
InitInitServer ==
  InitManager /\ InitNoSessionId /\ InitNoError /\ InitNoDetect /\ DrawInitServer /\ InitNoPing

SpecPool == Init /\ [][NextPool]_vars

SpecTools == Init /\ [][NextTools]_vars

SpecShutdown == Init /\ [][NextShutdown]_vars

SpecScope == Init /\ [][NextScope]_vars

SpecTracker == Init /\ [][NextTracker]_vars

SpecInit == Init /\ [][NextInit]_vars

SpecEvents == Init /\ [][NextEvents]_vars

SpecSessionId == InitSessionId /\ [][ExtractStep]_vars

SpecError == InitError /\ [][ClassifyStep]_vars

SpecDetect == InitDetect /\ [][DetectStep]_vars

SpecPing == Init /\ [][NextPing]_vars

\* Every call initializeServer awaits settles: connect() and isConnected()
\* are bounded by timeouts, handleOAuthRequired() by the flow's, the backoff
\* by its timer.
SpecInitServer ==
  InitInitServer /\ [][NextInitServer]_vars /\ WF_vars(NextInitServer)

SpecOAuth == Init /\ [][NextOAuth]_vars

SpecConn == Init /\ [][NextConn]_vars

SpecDisc == Init /\ [][NextDisc]_vars

SpecStop == Init /\ [][NextStop]_vars

SpecClose == Init /\ [][NextClose]_vars

(***************************************************************************)
(* Claims about the pool (checked under SpecPool)                          *)
(***************************************************************************)
ReturnedPcs == {"returned", "toolPing", "toolRequest", "toolDone"}

\* Connections created for (t, s) that are live (state connected).
LiveFor(t, s) ==
  {c \in ThreadConnIds : /\ conn[c].alloc
                         /\ conn[c].thread = t /\ conn[c].server = s
                         /\ conn[c].connectionState = "connected"}

\* C1: getThreadConnection calls for the same (thread, server) that overlap in
\* time (the later one started before the earlier one had registered its
\* Connection) all return the same Connection instance, and at no time is there
\* more than one live Connection created for a (thread, server).
C1_ScopeUniqueness ==
  /\ \A k1, k2 \in CallIds :
       (/\ calls[k1].pc \in ReturnedPcs /\ calls[k2].pc \in ReturnedPcs
        /\ k1 \in calls[k2].peers)
       => calls[k1].c = calls[k2].c
  /\ \A t \in Threads, s \in Servers : Cardinality(LiveFor(t, s)) <= 1

\* C3 (I1): every thread id that is a key of threadConnections is a key of
\* threadLastActivity and belongs to the thread set of exactly one user.
C3_ThreadIndexed ==
  \A t \in Threads :
    HasThread(threadConnections, t)
    => /\ threadLastActivity[t] # Absent
       /\ Cardinality({u \in Users : t \in userThreadMapping[u]}) = 1

\* C4: getThreadConnection never returns a Connection on which a pool teardown
\* (reaper pass, user reclamation, shutdown) has already invoked disconnect().
C4_NoTornHandout ==
  \A k \in CallIds : calls[k].pc \in ReturnedPcs => ~calls[k].tornAtReturn

\* C5: once every teardown started by reclamation has settled, whatever the
\* outcome of the individual disconnect() calls, no Connection that was under
\* an idle thread at a reclamation pass is still in threadConnections, and each
\* of them has had its transport closed.
NoTeardownPending == dtcTasks = {} /\ dtsTasks = {} /\ dutTasks = {}

C5_IdleThreadReclaimed ==
  NoTeardownPending
  => \A c \in reaped : c \notin PooledConns(threadConnections) /\ ~conn[c].transport


(***************************************************************************)
(* Claims about the authorization coordinator (checked under SpecOAuth)    *)
(***************************************************************************)
\* C14: when a callTool(user, threadId, ...) returns successfully, the thread's
\* and the user's last-activity timestamps are both defined and not smaller
\* than they were when the call was entered, reclamation running concurrently
\* included.
C14_ActivityAdvances ==
  [][\A k \in CallIds :
       (calls[k].pc = "toolRequest" /\ calls'[k].pc = "toolDone")
       => LET t == calls[k].thread
          IN /\ threadLastActivity'[t] # Absent
             /\ userLastActivity'[Owner(t)] # Absent
             /\ threadLastActivity'[t] >= calls[k].preThread
             /\ userLastActivity'[Owner(t)] >= calls[k].preUser]_vars

\* A callTool has returned successfully with both timestamps later than at its
\* entry; the teardown of its Connection had started before the Connection was
\* handed to it and is still in flight.
C14_ToolDoneDuringReclaim ==
  \E k \in CallIds :
    /\ calls[k].pc = "toolDone"
    /\ calls[k].preThread # Absent /\ calls[k].preUser # Absent
    /\ threadLastActivity[calls[k].thread] > calls[k].preThread
    /\ userLastActivity[Owner(calls[k].thread)] > calls[k].preUser
    /\ calls[k].tornAtReturn
    /\ \E x \in dtcTasks : x.c = calls[k].c

\* C21: callTool picks its Connection by scope. With a user and a threadId it
\* takes the thread-scope Connection registered for (threadId, server), or a
\* newly created Connection of that thread and server if none is registered.
\* Without a user or without a threadId it takes the process-scope Connection
\* of the server, fails if there is none, and creates and registers nothing.
C21_ScopeSelectsConnection ==
  [][\A k \in CallIds :
       (calls[k].pc = "idle" /\ calls'[k].pc # "idle" /\ calls'[k].tool)
       => LET t == calls'[k].thread
              s == calls'[k].server
              c == calls'[k].c
          IN IF calls'[k].user # NoUser /\ t # NoThread
               THEN /\ c \in ThreadConnIds
                    /\ conn'[c].thread = t /\ conn'[c].server = s
                    /\ c = threadConnections[t][s] \/ ~conn[c].alloc
                    /\ threadConnections[t][s] = NoConn => ~conn[c].alloc
               ELSE /\ c = connections[s]
                    /\ c \notin ThreadConnIds
                    /\ (calls'[k].pc = "failed") = (connections[s] = NoConn)
                    /\ threadConnections' = threadConnections
                    /\ conn' = conn]_vars

\* A callTool without a user has completed on the process-scope Connection of
\* its server while a thread-scope Connection was registered for the threadId
\* it was given and that server.
C21_AppCallBesideThreadConn ==
  \E k \in CallIds :
    /\ calls[k].pc = "toolDone"
    /\ calls[k].user = NoUser /\ calls[k].thread # NoThread
    /\ calls[k].c \in AppConnIds
    /\ threadConnections[calls[k].thread][calls[k].server] # NoConn

\* C22: after trackSession(u, s, null) the pair (u, s) is not among the entries
\* that getSessionStats().totalSessions counts, and if u had no other tracked
\* session, u is not a key of getAllActiveSessions() and totalUsers does not
\* count u.
C22_NullUntracks ==
  [][\A u \in Users, s \in Servers :
       TrackSession(u, s, Null)
       => LET others == {p \in Users \X Servers :
                           /\ p # <<u, s>>
                           /\ sessionTracker[p[1]].has
                           /\ sessionTracker[p[1]].m[p[2]] # NoKey}
              otherUsers == {p[1] : p \in others}
          IN /\ GetSessionStats(sessionTracker').totalSessions = Cardinality(others)
             /\ (u \notin otherUsers)
                  => /\ u \notin GetAllActiveSessions(sessionTracker')
                     /\ GetSessionStats(sessionTracker').totalUsers
                          = Cardinality(otherUsers)]_vars

\* C23: when a getThreadConnection(u, t, s) call fails, the end of its catch
\* block leaves a Connection that another call registered for (t, s) in
\* threadConnections, and leaves threadLastActivity[t] and the membership of t
\* in userThreadMapping as they were.
C23_CleanupOnlyOwnEntries ==
  [][\A k \in CallIds :
       (calls[k].pc = "cleanup" /\ calls'[k].pc = "failed")
       => LET t == calls[k].thread
              s == calls[k].server
          IN /\ threadConnections[t][s] # calls[k].c
                  => threadConnections'[t][s] = threadConnections[t][s]
             /\ threadLastActivity'[t] = threadLastActivity[t]
             /\ \A u \in Users : (t \in userThreadMapping'[u]) = (t \in userThreadMapping[u])]_vars

\* C24: once a getThreadConnection call has been rejected because its
\* initialization lost the race against initTimeout, and its Connection has
\* been torn down, no step brings that Connection out of the disconnected
\* state again.
C24_TimedOutStaysDown ==
  [][\A k \in CallIds :
       (/\ calls[k].pc = "failed" /\ calls[k].timedOut
        /\ conn[calls[k].c].connectionState = "disconnected"
        /\ ~conn[calls[k].c].transport)
       => /\ conn'[calls[k].c].connectionState = "disconnected"
          /\ ~conn'[calls[k].c].transport]_vars

\* C25: a finished run of the oauthRequired handler has emitted exactly one of
\* oauthHandled and oauthFailed; oauthHandled only if the flow yielded tokens
\* and setOAuthTokens has been called with them, oauthFailed only if the token
\* store has not been written.
C25_OneEventTokensFirst ==
  \A i \in TriggerIds :
    trig[i].pc = "done"
    => /\ trig[i].outcome \in {"oauthHandled", "oauthFailed"}
       /\ trig[i].outcome = "oauthHandled"
            => trig[i].result # NoTokens /\ trig[i].setTokens
       /\ trig[i].outcome = "oauthFailed" => ~StoreInvoked(trig[i])

\* C26: when a connect() that was called while the Connection held a Session
\* Record (by a reconnect loop or from outside) constructs its new transport,
\* the transport is constructed with the held session id.
C26_ReconnectResumesSession ==
  [][\A x \in ConnectorIds, a \in AttIds :
       (/\ task[x].pc \in {"discTerm", "discClose"} /\ task[x].held # NoAtt
        /\ att[a].pc = "free" /\ att'[a].pc = "handshake"
        /\ task'[x].pc = "wait" /\ task'[x].a = a)
       => att'[a].resume = task[x].held]_vars

\* C27: the Session Record of the (streamable-http) Connection is non-null
\* only if the Connection's state has been connected before, also in the state
\* that the listeners of sessionCreated see.
C27_SessionOnlyAfterConnected ==
  /\ mc.sess # "none" => hist.everConnected
  /\ hist.createdSeen # "never"

\* C28: after the extraction that follows a handshake, a Session Record exists
\* and sessionCreated has been emitted exactly when the transport's session id
\* is a non-empty string of characters in 0x21-0x7E; any other id leaves the
\* Session Record null and emits nothing.
C28_OnlyValidIdsCreateSession ==
  extracted.done
  => LET valid == /\ transportSessionId.kind = "string"
                  /\ IsValidSessionId(transportSessionId.chars)
     IN /\ extracted.hasSession = valid
        /\ extracted.created = valid

\* C30: a failed connect is classified as an authorization error exactly when
\* the error is an object whose message is a string containing "401" or whose
\* code is the number 401 or 403, whatever else the object carries.
C30_OAuthErrorClassification ==
  classified.done
  => classified.oauth =
       (/\ connectError.kind = "object"
        /\ \/ connectError.msgKind = "string" /\ Includes(connectError.message, Str401)
           \/ connectError.codeKind = "number" /\ connectError.code \in {401, 403})

\* C29: when the transport of a connected Connection is closed by the other
\* side, while no connect() or disconnect() is in progress and reconnecting has
\* not been stopped, a reconnect loop is running afterwards.
C29_CloseStartsReconnect ==
  [][\A a \in AttIds :
       (/\ TransportClose(a)
        /\ mc.connectionState = "connected" /\ mc.transport = a
        /\ ~mc.shouldStopReconnecting
        /\ \A x \in TaskIds : task[x].pc \notin ConnectPcs)
       => /\ mc'.isReconnecting
          /\ \E l \in LoopIds : task'[l].pc # "idle"]_vars

\* C18: when a disconnectAll() completes, also one whose disconnect() calls
\* have thrown, the app-level connections map is empty and threadConnections
\* holds no Connection on which disconnect() was invoked (at most Connections
\* registered while the teardown was running are left).
C18_DisconnectAllEmptiesPool ==
  [][(allTask.pc # "idle" /\ allTask'.pc = "idle")
     => /\ \A t \in Threads, s \in Servers :
             threadConnections'[t][s] # NoConn
             => ~conn'[threadConnections'[t][s]].teardownStarted
        /\ \A s \in Servers : connections'[s] = NoConn]_vars

\* C19: disconnectAll() is idempotent: a disconnectAll() called right after a
\* disconnectAll() has completed completes at once, invokes disconnect() on no
\* Connection and leaves every pool map and every Connection as they were.
C19_DisconnectAllIdempotent ==
  [][(allTask.fresh /\ DisconnectAll_Start)
     => /\ allTask'.pc = "idle"
        /\ conn' = conn
        /\ dtcTasks' = dtcTasks
        /\ connections' = connections
        /\ threadConnections' = threadConnections
        /\ threadLastActivity' = threadLastActivity
        /\ userLastActivity' = userLastActivity
        /\ userThreadMapping' = userThreadMapping]_vars

\* C20: while a disconnectAll() is running, no new getThreadConnection or
\* callTool is accepted (a call that arrives fails at once) and no Connection
\* is newly registered in threadConnections, so acquisitions that were in
\* flight when the teardown began register nothing either.
C20_NoNewWorkDuringShutdown ==
  [][allTask.pc # "idle"
     => /\ \A k \in CallIds :
             calls[k].pc = "idle" => calls'[k].pc \in {"idle", "failed"}
        /\ \A t \in Threads, s \in Servers :
             threadConnections'[t][s] # threadConnections[t][s]
             => threadConnections'[t][s] = NoConn]_vars

\* C2: when several oauthRequired events for the same (principal, server) are
\* handled concurrently, one authorization flow is initiated and one
\* authorization URL is passed to oauthStart for the whole burst, and all the
\* triggers of the burst observe the same token outcome.
C2_OneFlowPerBurst ==
  /\ \A fid \in FlowIds : initiated[fid] <= 1 /\ urls[fid] <= 1
  /\ \A i, j \in TriggerIds :
       (/\ trig[i].pc = "done" /\ trig[j].pc = "done"
        /\ i \in trig[j].peers /\ trig[i].flowId = trig[j].flowId)
       => trig[i].result = trig[j].result

\* C15: when the triggers of two concurrent calls for the same (user, server)
\* collapse onto one authorization flow (one flow is initiated for both), the
\* tokens are persisted once: storeTokens is invoked by one of the two
\* handlers, not by both.
C15_TokensStoredOnce ==
  \A i, j \in TriggerIds :
    (/\ i \in trig[j].peers /\ trig[i].flowId = trig[j].flowId
     /\ initiated[trig[i].flowId] = 1)
    => ~(StoreInvoked(trig[i]) /\ StoreInvoked(trig[j]))


(***************************************************************************)
(* Claims about one Connection (checked under SpecConn)                    *)
(***************************************************************************)
ActiveLoops == {l \in LoopIds : task[l].pc # "idle"}

\* C6 (I4): at most one reconnect loop (handleReconnection, from its start
\* until it returns, the backoff sleeps included) is active at any time.
C6_OneReconnectLoop == Cardinality(ActiveLoops) <= 1

\* C7 (P6): between an entry into the error state and the next time the state
\* is connected, the reconnect loops call connect() at most
\* MAX_RECONNECT_ATTEMPTS times in total.
C7_AtMostThreeAttempts == hist.attempts <= MAX_RECONNECT_ATTEMPTS

\* C8 (I3): a Connection whose state is error never moves directly to
\* connected.
C8_ErrorNeverDirectlyConnected ==
  [][mc.connectionState = "error" => mc'.connectionState # "connected"]_vars

\* C9: whenever a connect() call resolves without throwing, the Connection's
\* state is connected.
C9_ResolvedMeansConnected ==
  \A c \in CallerIds : task[c].pc = "resolved" => task[c].seen = "connected"

\* C10: a connect() called while an earlier connect() is in progress attaches
\* to the attempt in flight: the overlapping calls construct one transport
\* between them, the later call does not tear the attempt down, and two
\* overlapping callers settle with the same outcome.
C10_AttachToInFlight ==
  /\ hist.built <= 1
  /\ ~hist.torn
  /\ \A c, d \in CallerIds :
       (/\ task[c].pc \in {"resolved", "rejected"}
        /\ task[d].pc \in {"resolved", "rejected"}
        /\ task[d].overlap = "caller")
       => task[c].pc = task[d].pc


\* C11: connect() is idempotent on a connected Connection: a connect() called
\* from outside while the state is connected returns at once; it closes and
\* constructs no transport, sends no session-termination DELETE, and leaves the
\* Session Record and the state as they are.
C11_ConnectIdempotent ==
  [][\A c \in CallerIds :
       (/\ task[c].pc = "idle" /\ task'[c].pc # "idle"
        /\ mc.connectionState = "connected")
       => /\ task'[c].pc = "resolved"
          /\ mc' = mc
          /\ att' = att]_vars


C13_DisconnectStopsReconnect ==
  [][\A l \in LoopIds :
       (hist.stopped /\ task[l].pc = "backoff" /\ task'[l].pc # "backoff")
       => task'[l].pc = "idle"]_vars


C31_Rendering == ToLowerCase(ErrorToString(thrownError.error))

C31_Message ==
  IF thrownError.error.hasMessage THEN ToLowerCase(thrownError.error.message)
  ELSE C31_Rendering

C31_Terminated ==
  \/ Includes(C31_Rendering, <<"404">>)
  \/ \E w \in {<<"not", "found">>, <<"session", "not", "found">>,
               <<"session", "terminated">>} : Includes(C31_Message, w)

C31_Invalid ==
  \/ Includes(C31_Rendering, <<"400">>)
  \/ \E w \in {<<"bad", "request">>, <<"invalid", "session">>,
               <<"session", "invalid">>} : Includes(C31_Message, w)

C31_Expired ==
  \E w \in {<<"timeout">>, <<"expired">>, <<"session", "expired">>} :
    Includes(C31_Message, w)

C31_DetectByPrecedence ==
  detected.done =>
    LET isObject == thrownError.error.kind \in {"Error", "object"}
        type == IF ~isObject THEN "null"
                ELSE IF C31_Terminated THEN "session_terminated"
                ELSE IF C31_Invalid THEN "session_invalid"
                ELSE IF C31_Expired THEN "session_expired"
                ELSE "null"
    IN /\ detected.result.type = type
       /\ type # "null" =>
            detected.result.sessionId =
              (IF thrownError.hasSession THEN "session-1" ELSE Undefined)

\* An error that names both 404 and 400 is classified, with a Session Record.
C31_BothCodesTerminated ==
  /\ detected.done
  /\ thrownError.hasSession
  /\ C31_Terminated /\ C31_Invalid
  /\ detected.result = [type |-> "session_terminated", sessionId |-> "session-1"]


\* C32: terminateSession() never throws and sends no request when there is no
\* Session Record: a 2xx response marks the session terminated; 405, any other
\* status and a network failure leave it as it was and raise nothing; after
\* each of them disconnect() closes the client, and once the client is closed
\* the Session Record is cleared and a disconnect() from outside returns with
\* the state disconnected.
C32_TerminateNeverThrows ==
  [][\A x \in CallerIds \cup {DisconnectId} :
       /\ (task[x].pc = "idle" /\ task'[x].pc # "idle" /\ mc.sess # "active")
          => task'[x].pc # "discTerm" /\ task'[x].del = NoRequest
       /\ \A response \in TerminateResponses :
            DiscTermDone(x, response)
            => /\ task'[x].pc = "discClose"
               /\ mc'.sess = (IF response = "2xx" /\ mc.sess = "active"
                                THEN "terminated" ELSE mc.sess)
               /\ mc'.connectionState = mc.connectionState
       /\ DiscCloseDone(x, TRUE)
          => /\ mc'.sess = "none"
             /\ x = DisconnectId
                => task'[x].pc = "resolved" /\ mc'.connectionState = "disconnected"]_vars

\* The termination request of a disconnect() from outside has settled without
\* marking the session terminated, and disconnect() is closing the client.
C32_ClosingAfterRefusal ==
  /\ task[DisconnectId].pc = "discClose"
  /\ task[DisconnectId].held # NoAtt /\ mc.sessId = task[DisconnectId].held
  /\ mc.sess = "active"


\* C33: initializeServer always terminates, after at most maxAttempts (3)
\* connect attempts: it returns normally only when isConnected() has answered
\* true; it rethrows an authorization error without another attempt; otherwise
\* it rethrows the last error after the third failed attempt.
C33_InitServerSafe ==
  /\ initServer.connects <= maxAttempts
  /\ \A i \in 1..(Len(initServer.errors) - 1) : initServer.errors[i] \notin OAuthErrors
  /\ initServer.pc = "returned" => initServer.connects = Len(initServer.errors) + 1
  /\ initServer.pc = "thrown"
     => /\ initServer.thrown = Len(initServer.errors)
        /\ initServer.connects = Len(initServer.errors)
        /\ \/ initServer.errors[initServer.thrown] \in OAuthErrors
           \/ Len(initServer.errors) = maxAttempts

C33_InitServerTerminates ==
  /\ []C33_InitServerSafe
  /\ [][(initServer.pc # "returned" /\ initServer'.pc = "returned")
        => InitServer_IsConnectedDone(TRUE)]_vars
  /\ <>(initServer.pc \in {"returned", "thrown"})

\* The third attempt has failed after two other failures and its error, not an
\* authorization error, has been rethrown.
C33_ThrownAfterThird ==
  /\ initServer.pc = "thrown"
  /\ initServer.connects = maxAttempts
  /\ initServer.thrown = maxAttempts
  /\ initServer.errors[maxAttempts] \notin OAuthErrors


\* C34: a reclamation pass starts the teardown of a thread-scope Connection
\* only if the last activity of its thread is older than
\* THREAD_CONNECTION_IDLE_TIMEOUT, or the last activity of a user whose thread
\* set holds the thread is older than USER_CONNECTION_IDLE_TIMEOUT; a Connection
\* whose thread and user are both within their windows is left alone.
C34_ThreadIdle(t) ==
  /\ threadLastActivity[t] # Absent
  /\ now - threadLastActivity[t] > THREAD_CONNECTION_IDLE_TIMEOUT

C34_OwnerIdle(t) ==
  \E u \in Users :
    /\ t \in userThreadMapping[u]
    /\ userLastActivity[u] # Absent
    /\ now - userLastActivity[u] > USER_CONNECTION_IDLE_TIMEOUT

C34_ReaperOnlyIdle ==
  [][(GetInstance \/ \E k \in CallIds : Tool_RequestDone(k, TRUE))
     => \A c \in ThreadConnIds :
          (~conn[c].teardownStarted /\ conn'[c].teardownStarted)
          => C34_ThreadIdle(conn[c].thread) \/ C34_OwnerIdle(conn[c].thread)]_vars

\* A reclamation pass is tearing down the Connection of a thread that is within
\* its own window, because the thread's user has been idle.
C34_ReapedForIdleUser ==
  \E x \in dtcTasks :
    /\ x.root.kind = "reaper" /\ x.u # NoUser
    /\ threadLastActivity[x.t] # Absent
    /\ now - threadLastActivity[x.t] <= THREAD_CONNECTION_IDLE_TIMEOUT


\* C35: an outbound message with an empty result and no method is rejected
\* with "Empty result" exactly when the most recent such reply that was let
\* through, if there is one, was sent less than FIVE_MINUTES earlier; otherwise
\* it is sent and lastPingTime becomes the current time; a rejected reply
\* leaves lastPingTime as it was.
C35_RejectedOnlyAfterReply ==
  [][\A msg \in Messages :
       (Send(msg) /\ IsEmptyReply(msg))
       => /\ sendLog'.outcome = "rejected"
             <=> /\ sendLog.letThrough
                 /\ dateNow - sendLog.at < FIVE_MINUTES
          /\ sendLog'.outcome = "sent" => lastPingTime' = dateNow
          /\ sendLog'.outcome = "rejected" => lastPingTime' = lastPingTime]_vars


\* C36: a connect attempt that ends by rejecting, whatever the cause (a failed
\* authorization and the timeout of the wait for it included), does not leave
\* the Connection connecting: while no connect attempt is in flight and no
\* connect() call is under way, the state is not connecting.
C36_NotLeftConnecting ==
  (/\ mc.connectPromise = NoAtt
   /\ \A a \in AttIds : att[a].pc = "free"
   /\ \A x \in ConnectorIds : task[x].pc \notin ConnectPcs)
  => mc.connectionState # "connecting"


\* C37: whenever the state of a Connection is disconnected, after disconnect()
\* or after the close event of its transport, its Session Record is null and
\* it holds no transport handle.
C37_DisconnectedHoldsNothing ==
  mc.connectionState = "disconnected" => mc.sess = "none" /\ mc.transport = NoAtt


\* C38: the indexes of the pool never dangle: every key of threadLastActivity
\* and every thread id in a set of userThreadMapping is a key of
\* threadConnections.
C38_IndexesNeverDangle ==
  /\ \A t \in Threads :
       threadLastActivity[t] # Absent => HasThread(threadConnections, t)
  /\ \A u \in Users : \A t \in userThreadMapping[u] : HasThread(threadConnections, t)


\* C39: every Connection that leaves the thread pool, removed or overwritten
\* by the cleanup of a stale entry, the cleanup of a failed acquisition, a
\* concurrent registration, a reclamation or a shutdown, has had disconnect()
\* invoked on it by then.
C39_LeavesPoolDisconnected ==
  [][\A c \in ThreadConnIds :
       (c \in PooledConns(threadConnections) /\ c \notin PooledConns(threadConnections'))
       => conn'[c].teardownStarted]_vars


\* C40: a thread-scope Connection that carries the tools/call request of a
\* callTool(user, threadId, ...) still in flight is not disconnected by a
\* reclamation pass that another caller triggers meanwhile (getInstance(), or
\* the end of another callTool).
C40_InFlightNotReclaimed ==
  [][(GetInstance \/ \E k \in CallIds : Tool_RequestDone(k, TRUE))
     => \A c \in ThreadConnIds :
          (~conn[c].teardownStarted /\ conn'[c].teardownStarted)
          => ~\E j \in CallIds :
                /\ calls[j].pc = "toolRequest" /\ calls'[j].pc = "toolRequest"
                /\ calls[j].c = c]_vars

=============================================================================
